---- MODULE Spec2Model ----
(***************************************************************************)
(* Model of onceingen/x-weibo-auto-translator.                             *)
(*                                                                         *)
(*   SpecMode   the API / no-API mode controller of run_x_service.py       *)
(*              (run_scraper, run_tweet_processor, the loop of main).      *)
(*   SpecProc   the cycles of process_tweets in tweet_to_weibo.py:         *)
(*              filter by the ledger, translate, publish, record.          *)
(*   SpecCache  the cache file and is_valid_cache (tweet_to_weibo.py and   *)
(*              x_scraper.py hold the same function).                      *)
(*   SpecFetch  one call of get_tweets_from_x: cache, API strategy, scrape *)
(*              strategy, and what it logs for run_scraper.                *)
(*   SpecLedger processed_tweets.json under load_processed_tweets and      *)
(*              save_processed_tweet.                                      *)
(*   SpecModeFair  SpecMode with the loop of main taking its steps.        *)
(*   SpecCodec  the tweets of the cache file, written by one program and   *)
(*              read by load_tweets_from_cache.                            *)
(*   SpecStop   process_tweets under KeyboardInterrupt and crashes.        *)
(*   SpecTwo    two invocations of process_tweets on one ledger file.      *)
(*   SpecTranslate  one call of translate_text_with_openai under its       *)
(*              retry wrapper.                                             *)
(*   SpecScraper  one run of x_scraper.py: the Nitter mirrors, the direct  *)
(*              scrape, the cache file, and what run_scraper makes of it.  *)
(*   SpecSnapshot  the content of the cache file over several fetches.     *)
(*   SpecPost   one call of post_to_weibo: the image loop, the post call,  *)
(*              the retry wrapper.                                         *)
(*   SpecService  the loop of main with the subprocess that                *)
(*              run_tweet_processor starts in the no-API mode.             *)
(*   SpecTestLive  a test run of tweet_to_weibo.py followed by a run       *)
(*              without the test mode on the same processed_tweets.json.   *)
(*                                                                         *)
(* Time is counted in whole minutes: API_RECOVERY_MINUTES and the loop     *)
(* interval are configured in minutes, and the code compares elapsed       *)
(* seconds with API_RECOVERY_MINUTES * 60.                                 *)
(***************************************************************************)
EXTENDS Integers, Sequences, FiniteSets, TLC

\* ------------------------------------------------------------------ bounds
MaxThreshold == 3       \* MAX_API_FAILURES is drawn from 1..MaxThreshold
MaxRecovery  == 2       \* API_RECOVERY_MINUTES is drawn from 0..MaxRecovery
MaxInterval  == 2       \* args.interval is drawn from 1..MaxInterval
MaxDuration  == 2       \* a subprocess takes 0..MaxDuration minutes
MaxTime      == 5       \* the clock stops at MaxTime
MaxDepth     == 2       \* nested run_scraper() calls inside one call
MaxIds       == 3       \* tweet ids are 1..MaxIds
MaxFetch     == 2       \* a fetch returns at most MaxFetch tweets
MaxCycles    == 2       \* calls of process_tweets in one run
MaxClock     == 17      \* the clock of the cache stops at MaxClock
MaxStart     == 2       \* the cache's clock and timestamp start in 0..MaxStart
MaxStops     == 1       \* interrupts and crashes in one behaviour
MaxMirrors   == 3       \* the length of NITTER_INSTANCES
MaxMedia     == 10      \* post_to_weibo is called with 0..MaxMedia urls

\* ------------------------------------------------------------------ state
VARIABLES
  \* run_x_service.py: command line and config.ini
  no_api,                 \* args.no_api
  once,                   \* args.once
  interval,               \* args.interval (minutes)
  ENABLE_AUTO_SWITCH,
  MAX_API_FAILURES,
  API_RECOVERY_MINUTES,
  \* run_x_service.py: module globals
  USE_API_MODE,
  API_FAILURE_COUNT,
  LAST_API_FAILURE,       \* None, or Some(t)
  \* run_x_service.py: control
  now,                    \* the wall clock, datetime.now()
  pc,                     \* "main" | "enter" | "api" | "scrape" | "ret" | "sleep" | "done"
  current_time,           \* local of the innermost run_scraper frame
  depth,                  \* run_scraper frames below the one main called
  result,                 \* value run_scraper returned to main
  \* history of the running run_scraper call
  apiFetches,             \* tweet_to_weibo.py subprocesses run in this call
  scrapeFetches,          \* x_scraper.py subprocesses run in this call
  lastKind,               \* what happened in the last API subprocess
  lastClass,              \* how run_scraper classified it: "none" | "success" | "failure"
  streak,                 \* API failures observed in a row since API mode was entered
  flipRL,                 \* this call flipped to no-API on a rate-limit failure
  recovered,              \* this call went back to API mode on entry
  countBefore,            \* API_FAILURE_COUNT when the last API subprocess started
  \* tweet_to_weibo.py: config.ini and command line
  TEST_MODE,
  USE_BACKUP_TRANSLATOR,
  \* tweet_to_weibo.py: processed_tweets.json, a JSON list of id strings
  ledger,                 \* the ids last written to the file
  ledger_ok,              \* json.load of the file succeeds
  \* tweet_to_weibo.py: process_tweets
  ppc,                    \* "idle" | "item" | "post" | "record"
  processed_tweets,       \* the list loaded on entry
  new_tweets,             \* the new tweets not handled yet; the head is `tweet`
  translated_text,        \* what translate_text_with_openai returned for `tweet`
  attempt,                \* executions of post_to_weibo's body in the running call
  cycles,                 \* calls of process_tweets so far
  \* history
  lastTweet,              \* the record of the tweet the for loop handled last
  published,              \* per id: how often post_to_weibo returned True in the run
  fetchedIds,             \* the ids of the tweets the last cycle fetched
  allOk,                  \* post_to_weibo returned True for every tweet the
                          \* last cycle handled that is not a retweet
  translator,             \* the calls translate_text_with_openai made for `tweet`
  \* the cache: args.force, CACHE_EXPIRY (minutes), the file cache_<user>_tweets.json
  force,
  CACHE_EXPIRY,
  cache_file,             \* [state: "missing" | "malformed" | "ok", timestamp, format]
  clock,                  \* datetime.now() of the cache's process, in minutes
  valid,                  \* what the last call of is_valid_cache returned
  checked,                \* is_valid_cache was called in the current state
  \* tweet_to_weibo.py: get_tweets_from_x
  fpc,                    \* "idle" | "fetched": the call has returned
  fetchKind,              \* what the X API did in the call
  fetchSrc,               \* where the returned tweets come from
  returned,               \* what the call returned
  apiCalls,               \* runs of the API strategy in the call
  scrapeCalls,            \* calls of get_tweets_without_api in the call
  rateLimitLogged,        \* the call logged "X API请求次数超过限制"
  \* the tweets of a cache file: written by one program, read by the other
  cpc,                    \* "start" | "saved" | "loaded"
  items,                  \* the tweets a fetch strategy obtained
  cache_writer,           \* the program that writes them
  cache_tweets,           \* cache_data['tweets'] in the file
  loaded,                 \* what load_tweets_from_cache returned
  \* the end of the process by an interrupt or a crash
  halt,                   \* "none" | "interrupt" | "crash": how it last ended
  stops,                  \* (history) how many times it ended that way
  crashedIn,              \* (history) ids whose post returned True and whose
                          \* save_processed_tweet had not run when it ended
  \* two invocations of process_tweets on the same ledger file
  timeline,               \* the tweets both of them fetch
  qpc,                    \* per invocation: "idle" | "item" | "save" | "write" | "done"
  qloaded,                \* per invocation: processed_tweets, loaded on entry
  qnew,                   \* per invocation: the new tweets not yet handled
  qread,                  \* per invocation: the list save_processed_tweet loaded
  pubBy,                  \* (history) per invocation: the ids it published
  recorded,               \* (history) the ids a save_processed_tweet has written
  \* one call of translate_text_with_openai
  tpc,                    \* "idle" | "returned"
  tInput,                 \* the text's language and what the services did
  primaryCalls,           \* executions of openai.chat.completions.create
  fallbackCalls,          \* calls of translate_with_free_api
  tText,                  \* the text the call returned
  \* one run of x_scraper.py
  spc,                    \* "start" | "nitter" | "direct" | "save" | "exited" | "judged"
  order,                  \* the visited part of NITTER_INSTANCES after random.shuffle
  mirrorIx,               \* how many mirrors the for loop has visited
  visited,                \* (history) what each visited mirror gave
  scraperTweets,          \* the list `tweets` of main
  direct,                 \* (history) what scrape_tweets_directly gave
  exit_code,              \* the return code of the process, -1 while it runs
  verdict,                \* what run_scraper returns for the run
  cacheBefore,            \* (history) the cache file when the run began
  \* the content of the cache file over several fetches
  npc,                    \* "idle" | "fetched"
  snapshot,               \* the cache file: its 'timestamp', writer and 'tweets'
  fresh,                  \* what the fetch strategy of this cycle returned
  snapshotBefore,         \* (history) the cache file when the fetch began
  fetches,                \* the fetches so far; the time of a fetch is its number
  \* tweet_to_weibo.py: one call of post_to_weibo
  wpc,                    \* "idle" | "media" | "true" | "false" | "raised"
  media_urls,             \* how many urls the caller passed
  mediaIx,                \* the images the loop of this execution has handled
  pic_ids,                \* the images (by index) uploaded in this execution
  imgOutcome,             \* (history) what happened to the last image
  postCalls,              \* (history) the post calls issued during the call
  posted,                 \* (history) the post call of this execution
  wAttempt,               \* the executions of the body so far
  \* a test run of tweet_to_weibo.py followed by a run without the test mode
  testLedger              \* (history) processed_tweets.json as the test run left it

modeVars == <<no_api, once, interval, ENABLE_AUTO_SWITCH, MAX_API_FAILURES,
              API_RECOVERY_MINUTES, USE_API_MODE, API_FAILURE_COUNT,
              LAST_API_FAILURE, now, pc, current_time, depth, result,
              apiFetches, scrapeFetches, lastKind, lastClass, streak, flipRL,
              recovered, countBefore>>

procVars == <<TEST_MODE, USE_BACKUP_TRANSLATOR, ledger, ledger_ok, ppc,
              processed_tweets, new_tweets, translated_text, attempt, cycles,
              lastTweet, published, fetchedIds, allOk, translator>>

fetchVars == <<fpc, fetchKind, fetchSrc, returned, apiCalls, scrapeCalls,
               rateLimitLogged>>

codecVars == <<cpc, items, cache_writer, cache_tweets, loaded>>

\* the state of the parts that the cache and the fetch leave alone
stopVars == <<halt, stops, crashedIn>>

twoVars == <<timeline, qpc, qloaded, qnew, qread, pubBy, recorded>>

transVars == <<tpc, tInput, primaryCalls, fallbackCalls, tText>>

scraperVars == <<spc, order, mirrorIx, visited, scraperTweets, direct, exit_code,
                 verdict, cacheBefore>>

snapVars == <<npc, snapshot, fresh, snapshotBefore, fetches>>

postVars == <<wpc, media_urls, mediaIx, pic_ids, imgOutcome, postCalls, posted,
              wAttempt>>

liveVars == <<testLedger>>

extraVars == <<codecVars, stopVars, twoVars, transVars, scraperVars, snapVars, postVars, liveVars>>

cacheVars == <<force, CACHE_EXPIRY, cache_file, clock, valid, checked, fetchVars,
               extraVars>>

vars == <<modeVars, procVars, cacheVars>>

None == <<>>
Some(t) == <<t>>

\* ------------------------------------------------- run_x_service.py: policy

\* what can happen to the subprocess `tweet_to_weibo.py --force --once`
ApiKinds == {"ok", "rate_limit", "auth_error", "network_error",
             "startup_error", "spawn_error"}

\* exit status of tweet_to_weibo.py: process_tweets catches every exception of
\* the fetch; only a failure while the module loads (config) exits non-zero
ApiChildReturnCode(kind) == IF kind = "startup_error" THEN 1 ELSE 0

\* whether the child's output holds "X API请求次数超过限制": get_tweets_from_x logs
\* it for TooManyRequests / "429" only; other TweepyExceptions and other
\* exceptions log a different message and fall back to scraping
ApiChildLogsRateLimit(kind) == kind = "rate_limit"

InitialModeForced(na) == TRUE
\* USE_API_MODE = not args.no_api
InitialMode(na) == ~na

ApiClassifiedFailureOnlyStatus(rc, marker) == rc # 0
\* result.returncode != 0 or marker in result.stdout or marker in result.stderr
ApiClassifiedFailure(rc, marker) == rc # 0 \/ marker

ThresholdReachedLate(count) == count > MAX_API_FAILURES
\* API_FAILURE_COUNT >= MAX_API_FAILURES
ThresholdReached(count) == count >= MAX_API_FAILURES

RecoveryElapsedAtWindow(t, last) == (t - last) >= API_RECOVERY_MINUTES
\* (current_time - LAST_API_FAILURE).total_seconds() > API_RECOVERY_MINUTES * 60
RecoveryElapsed(t, last) == (t - last) > API_RECOVERY_MINUTES

BackToApiAfterFailedScrape(rc) == IF rc # 0 THEN TRUE ELSE USE_API_MODE
\* the no-API branch assigns none of the globals, whatever x_scraper.py returns
ModeAfterScrape(rc) == USE_API_MODE

CountKeptOnSuccess == API_FAILURE_COUNT
\* API_FAILURE_COUNT = 0 after a success
CountAfterSuccess == 0

\* no tweet was handled yet
NoTweet == [id |-> 0, rt |-> FALSE, text |-> "none", attempts |-> 0,
            pub |-> "none", added |-> FALSE]

\* process_tweets is not running
ProcRest ==
  /\ USE_BACKUP_TRANSLATOR = FALSE
  /\ ledger = <<>>
  /\ ledger_ok = TRUE
  /\ ppc = "idle"
  /\ processed_tweets = <<>>
  /\ new_tweets = <<>>
  /\ translated_text = "none"
  /\ attempt = 0
  /\ cycles = 0
  /\ lastTweet = NoTweet
  /\ published = [i \in 1..MaxIds |-> 0]
  /\ fetchedIds = {}
  /\ allOk = TRUE
  /\ translator = "none"

\* the other program is not running
ProcIdle ==
  /\ TEST_MODE = FALSE
  /\ ProcRest

\* no fetch is under way
FetchIdle ==
  /\ fpc = "idle"
  /\ fetchKind = "none"
  /\ fetchSrc = "none"
  /\ returned = "none"
  /\ apiCalls = 0
  /\ scrapeCalls = 0
  /\ rateLimitLogged = FALSE

\* no cache content is being written or read
CodecIdle ==
  /\ cpc = "start"
  /\ items = <<>>
  /\ cache_writer = "api"
  /\ cache_tweets = <<>>
  /\ loaded = <<>>

\* the process has not been stopped
StopIdle ==
  /\ halt = "none"
  /\ stops = 0
  /\ crashedIn = {}

Invocations == {1, 2}

\* no second invocation is running
TwoIdle ==
  /\ timeline = <<>>
  /\ qpc = [p \in Invocations |-> "idle"]
  /\ qloaded = [p \in Invocations |-> <<>>]
  /\ qnew = [p \in Invocations |-> <<>>]
  /\ qread = [p \in Invocations |-> <<>>]
  /\ pubBy = [p \in Invocations |-> {}]
  /\ recorded = {}

NoInput == [jp |-> FALSE, primary |-> "none", coin |-> FALSE, fb |-> "none"]

\* no translation is under way
TransIdle ==
  /\ tpc = "idle"
  /\ tInput = NoInput
  /\ primaryCalls = 0
  /\ fallbackCalls = 0
  /\ tText = "none"

NoCache == [state |-> "missing", timestamp |-> 0, format |-> "none"]

\* x_scraper.py is not running
ScraperIdle ==
  /\ spc = "start"
  /\ order = <<>>
  /\ mirrorIx = 0
  /\ visited = <<>>
  /\ scraperTweets = <<>>
  /\ direct = "none"
  /\ exit_code = -1
  /\ verdict = "none"
  /\ cacheBefore = NoCache

NoSnapshot == [timestamp |-> 0, by |-> "none", tweets |-> <<>>]
NoFetch == [ok |-> FALSE, by |-> "none", tweets |-> <<>>]

\* no fetch has touched the cache file
SnapIdle ==
  /\ npc = "idle"
  /\ snapshot = NoSnapshot
  /\ fresh = NoFetch
  /\ snapshotBefore = NoSnapshot
  /\ fetches = 0

NoPost == [api |-> "none", pic_id |-> <<>>]

PostIdle ==
  /\ wpc = "idle"
  /\ media_urls = 0
  /\ mediaIx = 0
  /\ pic_ids = <<>>
  /\ imgOutcome = "none"
  /\ postCalls = 0
  /\ posted = NoPost
  /\ wAttempt = 0

LiveIdle == testLedger = <<>>

ExtraIdle ==
  /\ CodecIdle
  /\ StopIdle
  /\ TwoIdle
  /\ TransIdle
  /\ ScraperIdle
  /\ SnapIdle
  /\ PostIdle
  /\ LiveIdle

CacheIdle ==
  /\ force = FALSE
  /\ CACHE_EXPIRY = 15
  /\ cache_file = [state |-> "missing", timestamp |-> 0, format |-> "none"]
  /\ clock = 0
  /\ valid = FALSE
  /\ checked = FALSE
  /\ FetchIdle
  /\ ExtraIdle

ModeIdle ==
  /\ no_api = FALSE
  /\ once = FALSE
  /\ interval = 1
  /\ ENABLE_AUTO_SWITCH = TRUE
  /\ MAX_API_FAILURES = 1
  /\ API_RECOVERY_MINUTES = 0
  /\ USE_API_MODE = TRUE
  /\ API_FAILURE_COUNT = 0
  /\ LAST_API_FAILURE = None
  /\ now = 0
  /\ pc = "main"
  /\ current_time = 0
  /\ depth = 0
  /\ result = FALSE
  /\ apiFetches = 0
  /\ scrapeFetches = 0
  /\ lastKind = "none"
  /\ lastClass = "none"
  /\ streak = 0
  /\ flipRL = FALSE
  /\ recovered = FALSE
  /\ countBefore = 0

\* ------------------------------------------------- run_x_service.py: actions

InitMode ==
  /\ no_api \in BOOLEAN
  /\ once \in BOOLEAN
  /\ interval \in 1..MaxInterval
  /\ ENABLE_AUTO_SWITCH \in BOOLEAN
  /\ MAX_API_FAILURES \in 1..MaxThreshold
  /\ API_RECOVERY_MINUTES \in 0..MaxRecovery
  /\ USE_API_MODE = InitialMode(no_api)
  /\ API_FAILURE_COUNT = 0
  /\ LAST_API_FAILURE = None
  /\ now = 0
  /\ pc = "main"
  /\ current_time = 0
  /\ depth = 0
  /\ result = FALSE
  /\ apiFetches = 0
  /\ scrapeFetches = 0
  /\ lastKind = "none"
  /\ lastClass = "none"
  /\ streak = 0
  /\ flipRL = FALSE
  /\ recovered = FALSE
  /\ countBefore = 0
  /\ ProcIdle
  /\ CacheIdle

cfgVars == <<no_api, once, interval, ENABLE_AUTO_SWITCH, MAX_API_FAILURES,
             API_RECOVERY_MINUTES>>

\* main: `if run_scraper():` at the top of the loop
MainCall ==
  /\ UNCHANGED <<procVars, cacheVars>>
  /\ pc = "main"
  /\ pc' = "enter"
  /\ depth' = 0
  /\ apiFetches' = 0
  /\ scrapeFetches' = 0
  /\ flipRL' = FALSE
  /\ lastClass' = "none"
  /\ recovered' = FALSE
  /\ UNCHANGED <<cfgVars, USE_API_MODE, API_FAILURE_COUNT, LAST_API_FAILURE,
                 now, current_time, result, lastKind, streak, countBefore>>

\* run_scraper, from its entry to the choice of the fetch
RunScraperEnter ==
  /\ UNCHANGED <<procVars, cacheVars>>
  /\ pc = "enter"
  /\ current_time' = now
  /\ LET forced  == IF ~ENABLE_AUTO_SWITCH /\ no_api THEN FALSE ELSE USE_API_MODE
         recover == /\ ~forced
                    /\ LAST_API_FAILURE # None
                    /\ ENABLE_AUTO_SWITCH
                    /\ RecoveryElapsed(now, LAST_API_FAILURE[1])
     IN /\ USE_API_MODE' = IF recover THEN TRUE ELSE forced
        /\ API_FAILURE_COUNT' = IF recover THEN 0 ELSE API_FAILURE_COUNT
        /\ streak' = IF recover THEN 0 ELSE streak
        /\ recovered' = (recovered \/ recover)
  /\ pc' = IF USE_API_MODE' THEN "api" ELSE "scrape"
  /\ UNCHANGED <<cfgVars, LAST_API_FAILURE, now, depth, result, apiFetches,
                 scrapeFetches, lastKind, lastClass, flipRL, countBefore>>

\* the API branch: the subprocess ran for d minutes and ended as `kind`
ApiFetch(kind, d) ==
  /\ UNCHANGED <<procVars, cacheVars>>
  /\ pc = "api"
  /\ now + d <= MaxTime
  /\ now' = now + d
  /\ apiFetches' = apiFetches + 1
  /\ lastKind' = kind
  /\ countBefore' = API_FAILURE_COUNT
  /\ IF \/ kind = "spawn_error"
        \/ ApiClassifiedFailure(ApiChildReturnCode(kind), ApiChildLogsRateLimit(kind))
     THEN /\ API_FAILURE_COUNT' = API_FAILURE_COUNT + 1
          /\ LAST_API_FAILURE' = Some(current_time)
          /\ lastClass' = "failure"
          /\ streak' = streak + 1
          /\ IF ThresholdReached(API_FAILURE_COUNT')
             THEN /\ depth < MaxDepth
                  /\ USE_API_MODE' = FALSE
                  /\ flipRL' = (flipRL \/ kind = "rate_limit")
                  /\ pc' = "enter"           \* return run_scraper()
                  /\ depth' = depth + 1
                  /\ UNCHANGED result
             ELSE /\ result' = FALSE
                  /\ pc' = "ret"
                  /\ UNCHANGED <<USE_API_MODE, flipRL, depth>>
     ELSE /\ API_FAILURE_COUNT' = CountAfterSuccess
          /\ lastClass' = "success"
          /\ streak' = 0
          /\ result' = TRUE
          /\ pc' = "ret"
          /\ UNCHANGED <<USE_API_MODE, LAST_API_FAILURE, flipRL, depth>>
  /\ UNCHANGED <<cfgVars, current_time, scrapeFetches, recovered>>

\* the no-API branch: x_scraper.py ran for d minutes and exited with rc
\* (rc = 2 stands for subprocess.run raising)
ScrapeFetch(rc, d) ==
  /\ UNCHANGED <<procVars, cacheVars>>
  /\ pc = "scrape"
  /\ now + d <= MaxTime
  /\ now' = now + d
  /\ scrapeFetches' = scrapeFetches + 1
  /\ result' = (rc = 0)
  /\ pc' = "ret"
  /\ USE_API_MODE' = ModeAfterScrape(rc)
  /\ UNCHANGED <<cfgVars, API_FAILURE_COUNT, LAST_API_FAILURE,
                 current_time, depth, apiFetches, lastKind, lastClass, streak,
                 flipRL, recovered, countBefore>>

\* where main goes after a cycle: the break of --once, else time.sleep
LeaveAfterCycle == "done"
AfterCycle == IF once THEN "done" ELSE "sleep"

\* main after run_scraper returned: run_tweet_processor when it returned True,
\* then leave (--once) or go to sleep
AfterScraper ==
  /\ UNCHANGED <<procVars, cacheVars>>
  /\ pc = "ret"
  /\ pc' = AfterCycle
  /\ UNCHANGED <<cfgVars, USE_API_MODE, API_FAILURE_COUNT, LAST_API_FAILURE,
                 now, current_time, depth, result, apiFetches, scrapeFetches,
                 lastKind, lastClass, streak, flipRL, recovered, countBefore>>

\* time.sleep(interval * 60)
Sleep ==
  /\ UNCHANGED <<procVars, cacheVars>>
  /\ pc = "sleep"
  /\ now + interval <= MaxTime
  /\ now' = now + interval
  /\ pc' = "main"
  /\ UNCHANGED <<cfgVars, USE_API_MODE, API_FAILURE_COUNT, LAST_API_FAILURE,
                 current_time, depth, result, apiFetches, scrapeFetches,
                 lastKind, lastClass, streak, flipRL, recovered, countBefore>>

NextMode ==
  \/ MainCall
  \/ RunScraperEnter
  \/ \E kind \in ApiKinds, d \in 0..MaxDuration : ApiFetch(kind, d)
  \/ \E rc \in 0..2, d \in 0..MaxDuration : ScrapeFetch(rc, d)
  \/ AfterScraper
  \/ Sleep

SpecMode == InitMode /\ [][NextMode]_vars

\* main is a sequential loop: its own steps (taking run_scraper's result,
\* time.sleep, the next round of `while True`) are taken when it is at them. A
\* subprocess is waited for without a timeout, so nothing is assumed about
\* the fetches
SpecModeFair ==
  SpecMode /\ WF_vars(AfterScraper) /\ WF_vars(Sleep) /\ WF_vars(MainCall)

\* ------------------------------------------------- tweet_to_weibo.py: helpers

\* a fetched tweet; full_text matters only through startswith('RT @'). A tweet
\* does not change: its text and time are fixed by its id (tweet 2 is the
\* retweet, and ids grow with the time of posting)
Tweets == {[id |-> i, rt |-> (i = 2), created_at |-> i] : i \in 1..MaxIds}

FetchResults == UNION {[1..n -> Tweets] : n \in 0..MaxFetch}

Range(q) == {q[k] : k \in 1..Len(q)}

RECURSIVE InsertByCreatedAt(_, _)
\* place t after every element whose created_at is not larger (the sort is stable)
InsertByCreatedAt(q, t) ==
  IF q = <<>> THEN <<t>>
  ELSE IF t.created_at < Head(q).created_at THEN <<t>> \o q
  ELSE <<Head(q)>> \o InsertByCreatedAt(Tail(q), t)

KeepFetchOrder(q) == q
RECURSIVE SortByCreatedAt(_)
\* tweets.sort(key=lambda x: x.created_at)
SortByCreatedAt(q) ==
  IF q = <<>> THEN <<>>
  ELSE InsertByCreatedAt(SortByCreatedAt(SubSeq(q, 1, Len(q) - 1)), q[Len(q)])

\* number of elements of q with id i
RECURSIVE Occurrences(_, _)
Occurrences(q, i) ==
  IF q = <<>> THEN 0
  ELSE (IF Head(q).id = i THEN 1 ELSE 0) + Occurrences(Tail(q), i)

IsRetweetNever(t) == FALSE
\* tweet_text.startswith('RT @')
IsRetweet(t) == t.rt

KeepAll(q, done) == q
\* the tweets whose str(id) is not in the loaded list
FilterNew(q, done) == SelectSeq(q, LAMBDA t : t.id \notin Range(done))

\* load_processed_tweets: the list in the file; [] when the file is missing or
\* json.load raises JSONDecodeError
load_processed_tweets == IF ledger_ok THEN ledger ELSE <<>>

SaveNothing(id) == ledger
\* save_processed_tweet: the file after the call
save_processed_tweet(id) ==
  IF id \in Range(load_processed_tweets) THEN ledger
  ELSE Append(load_processed_tweets, id)

\* translate_with_free_api: the translation, or f"[翻译失败] {text[:50]}..."
FreeApiPlaceholder(fb) == "placeholder"
translate_with_free_api(fb) == IF fb = "ok" THEN "fallback" ELSE "placeholder"

\* the calls translate_text_with_openai makes, in the order of its code:
\*   "skip"      no call at all (the test mode's coin)
\*   "p_ok"      the OpenAI call returned
\*   "p_fail"    the OpenAI call raised, translate_with_free_api was not called
\*   "fb_ok"     the OpenAI call raised, translate_with_free_api got status 200
\*   "fb_fail"   the OpenAI call raised, translate_with_free_api failed
TranslatorCalls(primary, coin, fb) ==
  LET backup == IF fb = "ok" THEN "fb_ok" ELSE "fb_fail"
  IN IF TEST_MODE /\ ~coin THEN "skip"
     ELSE IF primary = "ok" THEN "p_ok"
     ELSE IF TEST_MODE /\ primary \notin {"rate_limit", "quota"} THEN "p_fail"
     ELSE IF USE_BACKUP_TRANSLATOR THEN backup ELSE "p_fail"

\* translate_text_with_openai: which text it returns. primary is what the
\* OpenAI call does, coin is random.random() < 0.5 of the test mode, fb is what
\* the free endpoint does. Every exception of the primary call is caught in
\* the body, so the retry wrapper never runs the body again.
\*   "primary" the OpenAI translation     "fallback" the free API's translation
\*   "mock" "[测试翻译-..] ..."            "placeholder" "[翻译失败] ..." / "[测试翻译失败] ..."
\*   "empty" ""
translate_text_with_openai(primary, coin, fb) ==
  IF TEST_MODE
  THEN IF ~coin THEN "mock"
       ELSE IF primary = "ok" THEN "primary"
       ELSE IF primary \in {"rate_limit", "quota"}
            THEN IF USE_BACKUP_TRANSLATOR THEN translate_with_free_api(fb) ELSE "placeholder"
            ELSE "mock"
  ELSE IF primary = "ok" THEN "primary"
       ELSE IF USE_BACKUP_TRANSLATOR THEN translate_with_free_api(fb) ELSE ""

PrimaryOutcomes == {"ok", "rate_limit", "quota", "timeout", "error"}
FallbackOutcomes == {"ok", "fail"}

\* no translation was obtained: the text is empty or a failure placeholder
TranslationFailed(text) == text \in {"", "placeholder"}

\* the history counts up to 2: "more than once" is all that is asked of it
Counted(n) == IF n < 2 THEN n + 1 ELSE n

PostAttemptsRaised == 3 + 1
\* stop_after_attempt(3) around post_to_weibo
PostAttempts == 3

\* ------------------------------------------------- tweet_to_weibo.py: process_tweets

InitProc ==
  /\ ModeIdle
  /\ CacheIdle
  /\ TEST_MODE \in BOOLEAN
  /\ USE_BACKUP_TRANSLATOR \in BOOLEAN
  /\ ledger = <<>>
  /\ ledger_ok = TRUE
  /\ ppc = "idle"
  /\ processed_tweets = <<>>
  /\ new_tweets = <<>>
  /\ translated_text = "none"
  /\ attempt = 0
  /\ cycles = 0
  /\ lastTweet = NoTweet
  /\ published = [i \in 1..MaxIds |-> 0]
  /\ fetchedIds = {}
  /\ allOk = TRUE
  /\ translator = "none"

procCfg == <<TEST_MODE, USE_BACKUP_TRANSLATOR>>

\* the record kept of `tweet` once the loop is done with it
Handled(text, n, pub, added) ==
  [id |-> Head(new_tweets).id, rt |-> Head(new_tweets).rt, text |-> text,
   attempts |-> n, pub |-> pub, added |-> added]

\* the for loop moves on to the next new tweet, or process_tweets returns
NextTweet(rec) ==
  /\ lastTweet' = rec
  /\ new_tweets' = Tail(new_tweets)
  /\ ppc' = IF Tail(new_tweets) = <<>> THEN "idle" ELSE "item"
  /\ translated_text' = "none"
  /\ attempt' = 0
  /\ translator' = "none"

\* process_tweets from its entry to the for loop: load the ledger, fetch, sort
\* ascending by created_at, keep the tweets that are not in the loaded list
StartCycle(tweets) ==
  /\ UNCHANGED <<modeVars, cacheVars>>
  /\ ppc = "idle"
  /\ cycles < MaxCycles
  /\ cycles' = cycles + 1
  /\ processed_tweets' = load_processed_tweets
  /\ new_tweets' = FilterNew(SortByCreatedAt(tweets), processed_tweets')
  /\ ppc' = IF new_tweets' = <<>> THEN "idle" ELSE "item"
  /\ lastTweet' = NoTweet
  /\ translated_text' = "none"
  /\ attempt' = 0
  /\ fetchedIds' = {tweets[k].id : k \in 1..Len(tweets)}
  /\ allOk' = TRUE
  /\ translator' = "none"
  /\ UNCHANGED <<procCfg, ledger, ledger_ok, published>>

\* tweet_text.startswith('RT @'): record the id and continue
SkipRetweet ==
  /\ UNCHANGED <<modeVars, cacheVars>>
  /\ ppc = "item"
  /\ IsRetweet(Head(new_tweets))
  /\ ledger' = save_processed_tweet(Head(new_tweets).id)
  /\ ledger_ok' = TRUE
  /\ NextTweet(Handled("none", 0, "none", Head(new_tweets).id \in Range(ledger')))
  /\ UNCHANGED <<procCfg, processed_tweets, cycles, published, fetchedIds, allOk>>

\* translated_text = translate_text_with_openai(tweet_text); an empty text
\* skips the tweet
Translate(primary, coin, fb) ==
  /\ UNCHANGED <<modeVars, cacheVars>>
  /\ ppc = "item"
  /\ ~IsRetweet(Head(new_tweets))
  /\ LET text == translate_text_with_openai(primary, coin, fb)
     IN IF text # ""
        THEN /\ translated_text' = text
             /\ translator' = TranslatorCalls(primary, coin, fb)
             /\ ppc' = "post"
             /\ attempt' = 0
             /\ UNCHANGED <<new_tweets, lastTweet, allOk>>
        ELSE /\ NextTweet(Handled(text, 0, "none", FALSE))
             /\ allOk' = FALSE
  /\ UNCHANGED <<procCfg, ledger, ledger_ok, processed_tweets, cycles,
                 published, fetchedIds>>

\* one execution of post_to_weibo's body: it returns True ("true"), returns
\* False ("false": the response holds no id) or raises ("raise"); the wrapper
\* runs the body again after an exception until PostAttempts executions, then
\* the exception reaches the except of the for loop. The test mode returns True
\* without a post.
PostBody(out) ==
  /\ UNCHANGED <<modeVars, cacheVars>>
  /\ ppc = "post"
  /\ TEST_MODE => out = "true"
  /\ \/ /\ out = "true"
        /\ attempt' = attempt + 1
        /\ published' = [published EXCEPT ![Head(new_tweets).id] = Counted(@)]
        /\ ppc' = "record"
        /\ UNCHANGED <<new_tweets, lastTweet, translated_text, allOk, translator>>
     \/ /\ out = "false"
        /\ NextTweet(Handled(translated_text, attempt + 1, "false", FALSE))
        /\ allOk' = FALSE
        /\ UNCHANGED published
     \/ /\ out = "raise"
        /\ attempt + 1 < PostAttempts
        /\ attempt' = attempt + 1
        /\ UNCHANGED <<ppc, new_tweets, lastTweet, translated_text, published,
                       allOk, translator>>
     \/ /\ out = "raise"
        /\ attempt + 1 >= PostAttempts
        /\ NextTweet(Handled(translated_text, attempt + 1, "raise", FALSE))
        /\ allOk' = FALSE
        /\ UNCHANGED published
  /\ UNCHANGED <<procCfg, ledger, ledger_ok, processed_tweets, cycles, fetchedIds>>

\* save_processed_tweet(str(tweet.id)) after post_to_weibo returned True
RecordProcessed ==
  /\ UNCHANGED <<modeVars, cacheVars>>
  /\ ppc = "record"
  /\ ledger' = save_processed_tweet(Head(new_tweets).id)
  /\ ledger_ok' = TRUE
  /\ NextTweet(Handled(translated_text, attempt, "true",
                       Head(new_tweets).id \in Range(ledger')))
  /\ UNCHANGED <<procCfg, processed_tweets, cycles, published, fetchedIds, allOk>>

\* the timeline as both fetch strategies hand it over: newest tweet first.
\* StartCycle sorts what it gets, so every other arrangement of the same tweets
\* leads to the same state
NewestFirst ==
  {q \in FetchResults :
     \A a \in 1..(Len(q) - 1) : q[a].created_at >= q[a + 1].created_at}

\* the draws translate_text_with_openai really makes: random.random() only in
\* the test mode, translate_with_free_api only after a failed OpenAI call
TranslateDraws ==
  {d \in [primary : PrimaryOutcomes, coin : BOOLEAN, fb : FallbackOutcomes] :
     /\ (~TEST_MODE => d.coin)
     /\ (d.primary = "ok" \/ (TEST_MODE /\ ~d.coin) => d.fb = "ok")}

NextProc ==
  \/ \E tweets \in NewestFirst : StartCycle(tweets)
  \/ SkipRetweet
  \/ \E d \in TranslateDraws : Translate(d.primary, d.coin, d.fb)
  \/ \E out \in {"true", "false", "raise"} : PostBody(out)
  \/ RecordProcessed

SpecProc == InitProc /\ [][NextProc]_vars

\* ------------------------------------------------- the cache file

\* CACHE_EXPIRY: x_scraper.py sets 15; tweet_to_weibo.py sets
\* int(getboolean('CACHE_EXPIRY_MINUTES', fallback=15)), which is 15 without the
\* key, 1 or 0 for a boolean word, and ends the program for any other value
CacheExpiryValues == {0, 1, 15}

is_valid_cache_inclusive ==
  IF force THEN FALSE
  ELSE IF cache_file.state = "missing" THEN FALSE
  ELSE IF cache_file.state = "malformed" THEN FALSE
  ELSE clock - cache_file.timestamp <= CACHE_EXPIRY
\* is_valid_cache: args.force, then os.path.exists, then the parse of the file
\* and of its 'timestamp' (any exception is logged and gives False), then
\* (now - cache_time).total_seconds() < CACHE_EXPIRY * 60
is_valid_cache ==
  IF force THEN FALSE
  ELSE IF cache_file.state = "missing" THEN FALSE
  ELSE IF cache_file.state = "malformed" THEN FALSE
  ELSE clock - cache_file.timestamp < CACHE_EXPIRY

\* the two programs that write the cache file: tweet_to_weibo.py stores each
\* tweet with the key 'text', x_scraper.py with the key 'content'
CacheWriters == {"api", "scraper"}

\* the cache file as it may be found when a program starts
CacheFiles ==
  {[state |-> "missing", timestamp |-> 0, format |-> "none"],
   [state |-> "malformed", timestamp |-> 0, format |-> "none"]}
    \cup {[state |-> "ok", timestamp |-> t, format |-> w] :
            t \in 0..MaxStart, w \in CacheWriters}

InitCache ==
  /\ ModeIdle
  /\ ProcIdle
  /\ force \in BOOLEAN
  /\ CACHE_EXPIRY \in CacheExpiryValues
  /\ cache_file \in CacheFiles
  /\ clock \in 0..MaxStart
  /\ valid = FALSE
  /\ checked = FALSE
  /\ FetchIdle
  /\ ExtraIdle

\* a call of is_valid_cache
CheckCache ==
  /\ UNCHANGED <<modeVars, procVars, fetchVars, extraVars>>
  /\ valid' = is_valid_cache
  /\ checked' = TRUE
  /\ UNCHANGED <<force, CACHE_EXPIRY, cache_file, clock>>

\* time passes
Tick ==
  /\ UNCHANGED <<modeVars, procVars, fetchVars, extraVars>>
  /\ clock < MaxClock
  /\ clock' = clock + 1
  /\ checked' = FALSE
  /\ UNCHANGED <<force, CACHE_EXPIRY, cache_file, valid>>

\* save_tweets_to_cache / save_cache_file: 'timestamp' is datetime.now().isoformat()
SaveCache(writer) ==
  /\ UNCHANGED <<modeVars, procVars, fetchVars, extraVars>>
  /\ cache_file' = [state |-> "ok", timestamp |-> clock, format |-> writer]
  /\ checked' = FALSE
  /\ UNCHANGED <<force, CACHE_EXPIRY, clock, valid>>

\* something outside the program removes the file or leaves it unparsable
LoseCache(st) ==
  /\ UNCHANGED <<modeVars, procVars, fetchVars, extraVars>>
  /\ cache_file.state # st
  /\ cache_file' = [state |-> st, timestamp |-> 0, format |-> "none"]
  /\ checked' = FALSE
  /\ UNCHANGED <<force, CACHE_EXPIRY, clock, valid>>

NextCache ==
  \/ CheckCache
  \/ Tick
  \/ \E writer \in CacheWriters : SaveCache(writer)
  \/ \E st \in {"missing", "malformed"} : LoseCache(st)

SpecCache == InitCache /\ [][NextCache]_vars

\* ------------------------------------------------- tweet_to_weibo.py: the fetch

\* what the X API does in a call of get_tweets_from_x: it answers with tweets,
\* raises TooManyRequests (or a TweepyException with "429"), raises another
\* TweepyException, raises another exception, or answers without data
FetchKinds == {"ok", "rate_limit", "auth_error", "network_error", "no_data"}

\* what the subprocess x_scraper.py does for get_tweets_without_api: it saves
\* the tweets it scraped, finds none (and saves nothing), or exits non-zero
ScrapeOutcomes == {"tweets", "nothing", "error"}

\* load_tweets_from_cache of tweet_to_weibo.py: it reads tweet_data['text'];
\* any exception (no file, no JSON, a tweet stored under 'content') gives []
load_tweets_from_cache ==
  IF cache_file.state = "ok" /\ cache_file.format = "api" THEN "snapshot"
  ELSE "empty"

\* the cache file after x_scraper.py --force ran: save_cache_file is called
\* only when tweets were scraped
CacheAfterScrape(scraped) ==
  IF scraped = "tweets"
  THEN [state |-> "ok", timestamp |-> clock, format |-> "scraper"]
  ELSE cache_file

\* get_tweets_without_api: [] when the subprocess fails; else the tweets of
\* the cache file, read with tweet_data['content'] ([] on any exception)
get_tweets_without_api(scraped) ==
  IF scraped = "error" THEN "empty"
  ELSE IF scraped = "tweets" THEN "fresh"
  ELSE IF cache_file.state = "ok" /\ cache_file.format = "scraper" THEN "stale"
  ELSE "empty"

\* get_tweets_from_x after a failure of the API strategy that is no rate limit
\* (no user, no data, TweepyException without 429, any other exception): the
\* mock tweets in test mode, else get_tweets_without_api
MockWithoutTestFlag(kind) == kind # "rate_limit"
UseMockAfterApiFailure(kind) == kind # "rate_limit" /\ TEST_MODE

InitFetch ==
  /\ ModeIdle
  /\ TEST_MODE \in BOOLEAN
  /\ ProcRest
  /\ force \in BOOLEAN
  /\ CACHE_EXPIRY \in CacheExpiryValues
  /\ cache_file \in CacheFiles
  /\ clock \in 0..MaxStart
  /\ valid = FALSE
  /\ checked = FALSE
  /\ FetchIdle
  /\ ExtraIdle

\* one call of get_tweets_from_x. Every exception of the API strategy is
\* caught inside the decorated body, so the retry wrapper never runs it again.
GetTweetsFromX(kind, scraped) ==
  /\ UNCHANGED <<modeVars, procVars, extraVars>>
  /\ fpc = "idle"
  /\ fpc' = "fetched"
  /\ checked' = FALSE
  /\ IF is_valid_cache
     THEN /\ fetchKind' = "none"
          /\ fetchSrc' = "cache"
          /\ returned' = load_tweets_from_cache
          /\ apiCalls' = 0
          /\ scrapeCalls' = 0
          /\ rateLimitLogged' = FALSE
          /\ UNCHANGED cache_file
     ELSE /\ fetchKind' = kind
          /\ apiCalls' = 1
          /\ rateLimitLogged' = (kind = "rate_limit")
          /\ IF kind = "ok"
             THEN /\ fetchSrc' = "api"
                  /\ returned' = "fresh"
                  /\ scrapeCalls' = 0
                  /\ cache_file' = [state |-> "ok", timestamp |-> clock,
                                    format |-> "api"]
             ELSE IF UseMockAfterApiFailure(kind)
             THEN /\ fetchSrc' = "mock"
                  /\ returned' = "fresh"
                  /\ scrapeCalls' = 0
                  /\ UNCHANGED cache_file
             ELSE /\ fetchSrc' = "scrape"
                  /\ returned' = get_tweets_without_api(scraped)
                  /\ scrapeCalls' = 1
                  /\ cache_file' = CacheAfterScrape(scraped)
  /\ UNCHANGED <<force, CACHE_EXPIRY, clock, valid>>

\* process_tweets in test mode, one cycle in five: it takes the mock tweets
\* and does not call get_tweets_from_x
MockByChance ==
  /\ UNCHANGED <<modeVars, procVars, extraVars>>
  /\ fpc = "idle"
  /\ TEST_MODE
  /\ fpc' = "mocked"
  /\ fetchKind' = "none"
  /\ fetchSrc' = "mock"
  /\ returned' = "fresh"
  /\ apiCalls' = 0
  /\ scrapeCalls' = 0
  /\ rateLimitLogged' = FALSE
  /\ UNCHANGED <<force, CACHE_EXPIRY, cache_file, clock, valid, checked>>

\* process_tweets takes the result
FetchReturn ==
  /\ UNCHANGED <<modeVars, procVars, extraVars>>
  /\ fpc \in {"fetched", "mocked"}
  /\ fpc' = "idle"
  /\ fetchKind' = "none"
  /\ fetchSrc' = "none"
  /\ returned' = "none"
  /\ apiCalls' = 0
  /\ scrapeCalls' = 0
  /\ rateLimitLogged' = FALSE
  /\ UNCHANGED <<force, CACHE_EXPIRY, cache_file, clock, valid, checked>>

NextFetch ==
  \/ \E kind \in FetchKinds, scraped \in ScrapeOutcomes : GetTweetsFromX(kind, scraped)
  \/ MockByChance
  \/ FetchReturn
  \/ Tick
  \/ \E st \in {"missing", "malformed"} : LoseCache(st)

SpecFetch == InitFetch /\ [][NextFetch]_vars

\* ------------------------------------------------- tweet_to_weibo.py: the ledger file

InitLedger ==
  /\ ModeIdle
  /\ CacheIdle
  /\ ProcIdle

ledgerRest == <<TEST_MODE, USE_BACKUP_TRANSLATOR, ppc, new_tweets,
                translated_text, attempt, cycles, lastTweet, published,
                fetchedIds, allOk, translator>>

\* processed_tweets = load_processed_tweets()
LoadLedger ==
  /\ UNCHANGED <<modeVars, cacheVars>>
  /\ processed_tweets' = load_processed_tweets
  /\ UNCHANGED <<ledger, ledger_ok, ledgerRest>>

\* save_processed_tweet(str(id))
SaveLedger(id) ==
  /\ UNCHANGED <<modeVars, cacheVars>>
  /\ ledger' = save_processed_tweet(id)
  /\ ledger_ok' = TRUE
  /\ UNCHANGED <<processed_tweets, ledgerRest>>

\* the file is left unparsable: json.dump was interrupted after open(.., 'w'),
\* or the file was damaged from outside; `ledger` keeps the ids recorded so far
DamageLedger ==
  /\ UNCHANGED <<modeVars, cacheVars>>
  /\ ledger_ok
  /\ ledger # <<>>
  /\ ledger_ok' = FALSE
  /\ UNCHANGED <<ledger, processed_tweets, ledgerRest>>

NextLedger ==
  \/ LoadLedger
  \/ \E id \in 1..MaxIds : SaveLedger(id)
  \/ DamageLedger

SpecLedger == InitLedger /\ [][NextLedger]_vars

\* ------------------------------------------------- the tweets of the cache file

\* created_at as the strategies obtain it: the API and the direct scrape give
\* a time that isoformat() encodes; Nitter gives the title text of the date
\* link ("Apr 26, 2025 · 3:30 PM UTC"), or '' when the link has no title
TimeForms == {"iso", "title", "empty"}

\* a fetched tweet: its id, its text and its time (0..1) in one of the forms
FetchedItems ==
  {[id |-> i, text |-> x, time |-> t, form |-> f] :
     i \in 1..MaxIds, x \in {"hello", "RT @x hi"}, t \in 0..1, f \in TimeForms}

\* the forms of created_at a program can hold: tweet_to_weibo.py stores
\* tweet_data.created_at.isoformat(); x_scraper.py stores the Nitter title or
\* datetime.now().isoformat()
FormsOf(w) == IF w = "api" THEN {"iso"} ELSE TimeForms

\* one entry of cache_data['tweets'] as program w writes it: the text is
\* stored under 'text' by tweet_to_weibo.py (lines 262-266) and under
\* 'content' by x_scraper.py (lines 214-220, 355-361)
CacheEntry(w, it) ==
  [id |-> it.id,
   key |-> IF w = "api" THEN "text" ELSE "content",
   value |-> it.text,
   created_at |-> <<it.form, it.time>>]

\* save_tweets_to_cache / save_cache_file: json.dump of the entries
SaveTweets(w, q) == [k \in 1..Len(q) |-> CacheEntry(w, q[k])]

\* one tweet read by load_tweets_from_cache of tweet_to_weibo.py:
\* tweet_data['text'] and datetime.fromisoformat(tweet_data['created_at'])
EntryReadable(e) == e.key = "text" /\ e.created_at[1] = "iso"

LoadedTweet(e) ==
  [id |-> e.id, text |-> e.value, time |-> e.created_at[2], form |-> "iso"]

\* load_tweets_from_cache of tweet_to_weibo.py: an exception for any entry
\* (KeyError, ValueError) makes the whole call return []
LoadTweets(q) ==
  IF \A k \in 1..Len(q) : EntryReadable(q[k])
  THEN [k \in 1..Len(q) |-> LoadedTweet(q[k])]
  ELSE <<>>

InitCodec ==
  /\ ModeIdle
  /\ ProcIdle
  /\ force = FALSE
  /\ CACHE_EXPIRY = 15
  /\ cache_file = [state |-> "missing", timestamp |-> 0, format |-> "none"]
  /\ clock = 0
  /\ valid = FALSE
  /\ checked = FALSE
  /\ FetchIdle
  /\ cpc = "start"
  /\ cache_writer \in CacheWriters
  /\ items \in UNION {[1..n -> {it \in FetchedItems : it.form \in FormsOf(cache_writer)}] :
                        n \in 1..MaxFetch}
  /\ cache_tweets = <<>>
  /\ loaded = <<>>
  /\ StopIdle
  /\ TwoIdle
  /\ TransIdle
  /\ ScraperIdle
  /\ SnapIdle
  /\ PostIdle
  /\ LiveIdle

codecRest == <<force, CACHE_EXPIRY, cache_file, clock, valid, checked, fetchVars,
               stopVars, twoVars, transVars,
      scraperVars, snapVars, postVars, liveVars>>

\* ------------------------------------------------- two invocations

twoRest == <<force, CACHE_EXPIRY, cache_file, clock, valid, checked, fetchVars,
             codecVars, stopVars, transVars,
      scraperVars, snapVars, postVars, liveVars>>

twoProcRest == <<TEST_MODE, USE_BACKUP_TRANSLATOR, ledger_ok, ppc, processed_tweets,
                 new_tweets, translated_text, attempt, cycles, lastTweet,
                 fetchedIds, allOk, translator>>

\* what both invocations fetch: tweets of one account, no id twice
Timelines ==
  {q \in FetchResults : q # <<>> /\ \A i \in 1..MaxIds : Occurrences(q, i) <= 1}

InitTwo ==
  /\ ModeIdle
  /\ ProcIdle
  /\ force = FALSE
  /\ CACHE_EXPIRY = 15
  /\ cache_file = [state |-> "missing", timestamp |-> 0, format |-> "none"]
  /\ clock = 0
  /\ valid = FALSE
  /\ checked = FALSE
  /\ FetchIdle
  /\ CodecIdle
  /\ StopIdle
  /\ TransIdle
  /\ timeline \in Timelines
  /\ qpc = [p \in Invocations |-> "idle"]
  /\ qloaded = [p \in Invocations |-> <<>>]
  /\ qnew = [p \in Invocations |-> <<>>]
  /\ qread = [p \in Invocations |-> <<>>]
  /\ pubBy = [p \in Invocations |-> {}]
  /\ recorded = {}
  /\ ScraperIdle
  /\ SnapIdle
  /\ PostIdle
  /\ LiveIdle

WriteOnlyId(list, id) == <<id>>
\* save_processed_tweet after its load: append the id and dump the list
WriteProcessed(list, id) == Append(list, id)

\* the for loop of invocation p moves on
TwoNextTweet(p) ==
  /\ qnew' = [qnew EXCEPT ![p] = Tail(@)]
  /\ qpc' = [qpc EXCEPT ![p] = IF Tail(qnew[p]) = <<>> THEN "done" ELSE "item"]

\* invocation p enters process_tweets: load the ledger, fetch, sort, filter
TwoStart(p) ==
  /\ UNCHANGED <<modeVars, twoRest, twoProcRest>>
  /\ qpc[p] = "idle"
  /\ qloaded' = [qloaded EXCEPT ![p] = load_processed_tweets]
  /\ qnew' = [qnew EXCEPT ![p] = FilterNew(SortByCreatedAt(timeline), qloaded'[p])]
  /\ qpc' = [qpc EXCEPT ![p] = IF qnew'[p] = <<>> THEN "done" ELSE "item"]
  /\ UNCHANGED <<timeline, qread, pubBy, recorded, ledger, published>>

\* invocation p handles its next new tweet up to save_processed_tweet: a
\* retweet goes to the save at once; else the tweet is translated and posted
\* (ok) and goes to the save, or it is skipped
TwoHandle(p, ok) ==
  /\ UNCHANGED <<modeVars, twoRest, twoProcRest>>
  /\ qpc[p] = "item"
  /\ IF IsRetweet(Head(qnew[p]))
     THEN /\ qpc' = [qpc EXCEPT ![p] = "save"]
          /\ UNCHANGED <<qnew, published, pubBy>>
     ELSE IF ok
     THEN /\ published' = [published EXCEPT ![Head(qnew[p]).id] = Counted(@)]
          /\ pubBy' = [pubBy EXCEPT ![p] = @ \cup {Head(qnew[p]).id}]
          /\ qpc' = [qpc EXCEPT ![p] = "save"]
          /\ UNCHANGED qnew
     ELSE /\ TwoNextTweet(p)
          /\ UNCHANGED <<published, pubBy>>
  /\ UNCHANGED <<timeline, qloaded, qread, recorded, ledger>>

\* save_processed_tweet of invocation p, first half: load the file; an id
\* that is in the list ends the call
TwoSaveRead(p) ==
  /\ UNCHANGED <<modeVars, twoRest, twoProcRest>>
  /\ qpc[p] = "save"
  /\ qread' = [qread EXCEPT ![p] = load_processed_tweets]
  /\ IF Head(qnew[p]).id \in Range(qread'[p])
     THEN TwoNextTweet(p)
     ELSE /\ qpc' = [qpc EXCEPT ![p] = "write"]
          /\ UNCHANGED qnew
  /\ UNCHANGED <<timeline, qloaded, pubBy, recorded, ledger, published>>

\* save_processed_tweet of invocation p, second half: write the list back
TwoSaveWrite(p) ==
  /\ UNCHANGED <<modeVars, twoRest, twoProcRest>>
  /\ qpc[p] = "write"
  /\ ledger' = WriteProcessed(qread[p], Head(qnew[p]).id)
  /\ recorded' = recorded \cup {Head(qnew[p]).id}
  /\ TwoNextTweet(p)
  /\ UNCHANGED <<timeline, qloaded, qread, pubBy, published>>

NextTwo ==
  \E p \in Invocations :
    \/ TwoStart(p)
    \/ \E ok \in BOOLEAN : TwoHandle(p, ok)
    \/ TwoSaveRead(p)
    \/ TwoSaveWrite(p)

SpecTwo == InitTwo /\ [][NextTwo]_vars

\* ------------------------------------------------- the translator's retry

transRest == <<force, CACHE_EXPIRY, cache_file, clock, valid, checked, fetchVars,
               codecVars, stopVars, twoVars,
      scraperVars, snapVars, postVars, liveVars>>

InitTranslate ==
  /\ ModeIdle
  /\ TEST_MODE \in BOOLEAN
  /\ USE_BACKUP_TRANSLATOR \in BOOLEAN
  /\ ledger = <<>>
  /\ ledger_ok = TRUE
  /\ ppc = "idle"
  /\ processed_tweets = <<>>
  /\ new_tweets = <<>>
  /\ translated_text = "none"
  /\ attempt = 0
  /\ cycles = 0
  /\ lastTweet = NoTweet
  /\ published = [i \in 1..MaxIds |-> 0]
  /\ fetchedIds = {}
  /\ allOk = TRUE
  /\ translator = "none"
  /\ force = FALSE
  /\ CACHE_EXPIRY = 15
  /\ cache_file = [state |-> "missing", timestamp |-> 0, format |-> "none"]
  /\ clock = 0
  /\ valid = FALSE
  /\ checked = FALSE
  /\ FetchIdle
  /\ CodecIdle
  /\ StopIdle
  /\ TwoIdle
  /\ TransIdle
  /\ ScraperIdle
  /\ SnapIdle
  /\ PostIdle
  /\ LiveIdle

\* stop_after_attempt(3) around translate_text_with_openai
TranslateAttempts == 3

\* the exceptions the wrapper would run the body again for
RetriedErrors == {"rate_limit", "timeout"}

\* whether an exception of the OpenAI call leaves the body of
\* translate_text_with_openai: each try has an `except Exception`, in the
\* test mode and outside it, so none does
BodyRaises(primary) == FALSE

\* executions of the OpenAI call in one call of the wrapped function: the
\* wrapper runs the body again only when it raised one of RetriedErrors
PrimaryCallsMade(primary, coin) ==
  IF TEST_MODE /\ ~coin THEN 0
  ELSE IF BodyRaises(primary) /\ primary \in RetriedErrors THEN TranslateAttempts
  ELSE 1

\* one call translate_text_with_openai(text) through its wrapper
TranslateCall(jp, primary, coin, fb) ==
  /\ UNCHANGED <<modeVars, procVars, transRest>>
  /\ tpc = "idle"
  /\ tpc' = "returned"
  /\ tInput' = [jp |-> jp, primary |-> primary, coin |-> coin, fb |-> fb]
  /\ primaryCalls' = PrimaryCallsMade(primary, coin)
  /\ fallbackCalls' =
       IF TranslatorCalls(primary, coin, fb) \in {"fb_ok", "fb_fail"} THEN 1 ELSE 0
  /\ tText' = translate_text_with_openai(primary, coin, fb)

\* process_tweets takes the text
TranslateReturn ==
  /\ UNCHANGED <<modeVars, procVars, transRest>>
  /\ tpc = "returned"
  /\ tpc' = "idle"
  /\ tInput' = NoInput
  /\ primaryCalls' = 0
  /\ fallbackCalls' = 0
  /\ tText' = "none"

NextTranslate ==
  \/ \E jp \in BOOLEAN, primary \in PrimaryOutcomes, coin \in BOOLEAN,
        fb \in FallbackOutcomes : TranslateCall(jp, primary, coin, fb)
  \/ TranslateReturn

SpecTranslate == InitTranslate /\ [][NextTranslate]_vars

\* ------------------------------------------------- x_scraper.py

scraperRest == <<CACHE_EXPIRY, clock, valid, checked, fetchVars, codecVars,
                 stopVars, twoVars, transVars, snapVars, postVars, liveVars>>

Mirrors == 1..MaxMirrors

\* the cache files a run of x_scraper.py may find
ScraperCacheFiles ==
  {f \in CacheFiles : f.timestamp = 0}

\* one pass of the for loop over the mirrors:
\*   "error"    session.get / raise_for_status raised (the except: continue)
\*   "no_items" no .timeline-item in the page (continue)
\*   "skipped"  every element was a retweet, had no link or failed to parse
\*   "items"    at least one tweet was appended
MirrorOutcomes == {"error", "no_items", "skipped", "items"}

\* scrape_tweets_directly: [] after an exception or when no selector matches,
\* else the tweets it appended
DirectOutcomes == {"error", "nothing", "items"}

\* n tweets that source `src` gave
ItemsFrom(src, n) == [k \in 1..n |-> [id |-> k, src |-> src]]

InitScraper ==
  /\ ModeIdle
  /\ ProcIdle
  /\ force \in BOOLEAN
  /\ CACHE_EXPIRY = 15
  /\ cache_file \in ScraperCacheFiles
  /\ clock \in {MaxStart, MaxClock}
  /\ valid = FALSE
  /\ checked = FALSE
  /\ FetchIdle
  /\ CodecIdle
  /\ StopIdle
  /\ TwoIdle
  /\ TransIdle
  /\ ScraperIdle
  /\ SnapIdle
  /\ PostIdle
  /\ LiveIdle

\* the interpreter cannot run main (a module of the import list is missing):
\* the only way to a return code other than 0, since __main__ catches
\* KeyboardInterrupt and Exception around main()
ScraperCannotRun ==
  /\ UNCHANGED <<modeVars, procVars, scraperRest>>
  /\ spc = "start"
  /\ spc' = "exited"
  /\ exit_code' = 1
  /\ cacheBefore' = cache_file
  /\ UNCHANGED <<force, cache_file, order, mirrorIx, visited, scraperTweets,
                 direct, verdict>>

\* main up to the choice of the source: the valid cache, the mock tweets of
\* --test with --windows-path, or the mirrors in shuffled order
ScraperStart(testWin) ==
  /\ UNCHANGED <<modeVars, procVars, scraperRest>>
  /\ spc = "start"
  /\ cacheBefore' = cache_file
  /\ IF is_valid_cache
     THEN /\ scraperTweets' = ItemsFrom("cache", 1)
          /\ spc' = "exited"
          /\ exit_code' = 0
          /\ UNCHANGED order
     ELSE IF testWin
     THEN /\ scraperTweets' = ItemsFrom("mock", 1)
          /\ spc' = "save"
          /\ UNCHANGED <<order, exit_code>>
     ELSE /\ spc' = "nitter"
          /\ UNCHANGED <<order, scraperTweets, exit_code>>
  /\ UNCHANGED <<force, cache_file, mirrorIx, visited, direct, verdict>>

BreakNever(q) == FALSE
\* if tweets: break
BreakAfterMirror(q) == q # <<>>

\* one pass of the for loop of scrape_tweets_from_nitter over mirror m, which
\* the shuffle put next (any mirror not yet visited), and the return of the
\* function after the last pass (main goes to the direct scrape when the list
\* is empty)
VisitMirror(m, outcome, n) ==
  /\ UNCHANGED <<modeVars, procVars, scraperRest>>
  /\ spc = "nitter"
  /\ mirrorIx < MaxMirrors
  /\ m \notin Range(order)
  /\ order' = Append(order, m)
  /\ mirrorIx' = mirrorIx + 1
  /\ visited' = Append(visited, outcome)
  /\ scraperTweets' = IF outcome = "items"
                      THEN scraperTweets \o ItemsFrom(m, n)
                      ELSE scraperTweets
  /\ spc' = IF mirrorIx' < MaxMirrors /\ ~BreakAfterMirror(scraperTweets') THEN "nitter"
            ELSE IF scraperTweets' = <<>> THEN "direct"
            ELSE "save"
  /\ UNCHANGED <<force, cache_file, direct, exit_code, verdict, cacheBefore>>

\* scrape_tweets_directly
ScrapeDirectly(outcome, n) ==
  /\ UNCHANGED <<modeVars, procVars, scraperRest>>
  /\ spc = "direct"
  /\ direct' = outcome
  /\ scraperTweets' = IF outcome = "items" THEN ItemsFrom("direct", n) ELSE <<>>
  /\ spc' = "save"
  /\ UNCHANGED <<force, cache_file, order, mirrorIx, visited, exit_code, verdict,
                 cacheBefore>>

\* the rest of main: save_cache_file when there are tweets, else the error
\* log and return; both ways the process ends with return code 0
ScraperFinish ==
  /\ UNCHANGED <<modeVars, procVars, scraperRest>>
  /\ spc = "save"
  /\ cache_file' = CacheAfterScrape(IF scraperTweets # <<>> THEN "tweets" ELSE "nothing")
  /\ spc' = "exited"
  /\ exit_code' = 0
  /\ UNCHANGED <<force, order, mirrorIx, visited, scraperTweets, direct, verdict,
                 cacheBefore>>

\* run_scraper, the no-API branch: False for a return code other than 0
VerdictOfRunScraper(rc) == IF rc # 0 THEN "failure" ELSE "success"

\* run_scraper reads the return code of the subprocess
CallerJudges ==
  /\ UNCHANGED <<modeVars, procVars, scraperRest>>
  /\ spc = "exited"
  /\ spc' = "judged"
  /\ verdict' = VerdictOfRunScraper(exit_code)
  /\ UNCHANGED <<force, cache_file, order, mirrorIx, visited, scraperTweets,
                 direct, exit_code, cacheBefore>>

NextScraper ==
  \/ ScraperCannotRun
  \/ \E testWin \in BOOLEAN : ScraperStart(testWin)
  \/ \E m \in Mirrors, outcome \in MirrorOutcomes, n \in 1..MaxFetch :
       VisitMirror(m, outcome, n)
  \/ \E outcome \in DirectOutcomes, n \in 1..MaxFetch : ScrapeDirectly(outcome, n)
  \/ ScraperFinish
  \/ CallerJudges

SpecScraper == InitScraper /\ [][NextScraper]_vars

\* ------------------------------------------------- the cache file over fetches

snapRest == <<force, CACHE_EXPIRY, cache_file, clock, valid, checked, fetchVars,
              codecVars, stopVars, twoVars, transVars, scraperVars, postVars, liveVars>>

\* what a fetch of one timeline can return: tweets in the order of their ids,
\* no id twice
FreshResults ==
  {q \in UNION {[1..n -> {it \in FetchedItems :
                            it.text = "hello" /\ it.time = 0 /\ it.form = "iso"}] :
                 n \in 0..MaxFetch} :
     \A a, b \in 1..Len(q) : a < b => q[a].id < q[b].id}

InitSnapshot ==
  /\ ModeIdle
  /\ ProcIdle
  /\ force = FALSE
  /\ CACHE_EXPIRY = 15
  /\ cache_file = NoCache
  /\ clock = 0
  /\ valid = FALSE
  /\ checked = FALSE
  /\ FetchIdle
  /\ CodecIdle
  /\ StopIdle
  /\ TwoIdle
  /\ TransIdle
  /\ ScraperIdle
  /\ SnapIdle
  /\ PostIdle
  /\ LiveIdle

\* a fetch that found no valid cache: the API strategy of get_tweets_from_x
\* ("api") or the strategies of x_scraper.py ("scraper") return tweets q, or
\* fail (~ok)
FreshFetch(w, ok, q) ==
  /\ UNCHANGED <<modeVars, procVars, snapRest>>
  /\ npc = "idle"
  /\ fetches < MaxCycles + 1
  /\ ~ok => q = <<>>
  /\ fetches' = fetches + 1
  /\ fresh' = [ok |-> ok, by |-> w, tweets |-> q]
  /\ snapshotBefore' = snapshot
  /\ npc' = "fetched"
  /\ UNCHANGED snapshot

MergedWithOld(w, q) == snapshot.tweets \o SaveTweets(w, q)
\* cache_data['tweets'] of save_tweets_to_cache / save_cache_file: the list
\* that was passed, written with open(.., 'w')
WrittenTweets(w, q) == SaveTweets(w, q)

\* the tail of the fetch: the API branch returns before save_tweets_to_cache
\* when the response holds no data or after an exception; x_scraper.py calls
\* save_cache_file only `if tweets`
StoreSnapshot ==
  /\ UNCHANGED <<modeVars, procVars, snapRest>>
  /\ npc = "fetched"
  /\ npc' = "idle"
  /\ snapshot' = IF fresh.ok /\ fresh.tweets # <<>>
                 THEN [timestamp |-> fetches, by |-> fresh.by,
                       tweets |-> WrittenTweets(fresh.by, fresh.tweets)]
                 ELSE snapshot
  /\ UNCHANGED <<fresh, snapshotBefore, fetches>>

NextSnapshot ==
  \/ \E w \in CacheWriters, ok \in BOOLEAN, q \in FreshResults : FreshFetch(w, ok, q)
  \/ StoreSnapshot

SpecSnapshot == InitSnapshot /\ [][NextSnapshot]_vars

\* ------------------------------------------------- run_x_service.py: main with run_tweet_processor

\* the service as main runs it: run_scraper, then run_tweet_processor, whose
\* subprocess `tweet_to_weibo.py --once --force` fetches through
\* get_tweets_from_x; args.force is set in every subprocess
InitService ==
  /\ no_api \in BOOLEAN
  /\ once \in BOOLEAN
  /\ interval \in 1..MaxInterval
  /\ ENABLE_AUTO_SWITCH \in BOOLEAN
  /\ MAX_API_FAILURES \in 1..MaxThreshold
  /\ API_RECOVERY_MINUTES \in 0..MaxRecovery
  /\ USE_API_MODE = InitialMode(no_api)
  /\ API_FAILURE_COUNT = 0
  /\ LAST_API_FAILURE = None
  /\ now = 0
  /\ pc = "main"
  /\ current_time = 0
  /\ depth = 0
  /\ result = FALSE
  /\ apiFetches = 0
  /\ scrapeFetches = 0
  /\ lastKind = "none"
  /\ lastClass = "none"
  /\ streak = 0
  /\ flipRL = FALSE
  /\ recovered = FALSE
  /\ countBefore = 0
  /\ ProcIdle
  /\ force = TRUE
  /\ CACHE_EXPIRY = 15
  /\ cache_file = NoCache
  /\ clock = 0
  /\ valid = FALSE
  /\ checked = FALSE
  /\ FetchIdle
  /\ ExtraIdle

modeRest == <<cfgVars, USE_API_MODE, API_FAILURE_COUNT, LAST_API_FAILURE, now,
              current_time, depth, result, apiFetches, scrapeFetches, lastKind,
              lastClass, streak, flipRL, recovered, countBefore>>

\* main: `if run_scraper(): run_tweet_processor()`. run_tweet_processor starts
\* the subprocess only `if not USE_API_MODE`
RunTweetProcessor ==
  /\ UNCHANGED <<modeRest, procVars, cacheVars>>
  /\ pc = "ret"
  /\ pc' = IF result /\ ~USE_API_MODE THEN "processor" ELSE AfterCycle

\* process_tweets of the subprocess calls get_tweets_from_x
ProcessorFetch(kind, scraped) ==
  /\ pc = "processor"
  /\ GetTweetsFromX(kind, scraped)

\* the subprocess ends; main leaves (--once) or goes to sleep
ProcessorEnd ==
  /\ pc = "processor"
  /\ fpc = "fetched"
  /\ pc' = AfterCycle
  /\ fpc' = "idle"
  /\ fetchKind' = "none"
  /\ fetchSrc' = "none"
  /\ returned' = "none"
  /\ apiCalls' = 0
  /\ scrapeCalls' = 0
  /\ rateLimitLogged' = FALSE
  /\ UNCHANGED <<modeRest, procVars, force, CACHE_EXPIRY, cache_file, clock,
                 valid, checked, extraVars>>

NextService ==
  \/ MainCall
  \/ RunScraperEnter
  \/ \E kind \in ApiKinds, d \in 0..MaxDuration : ApiFetch(kind, d)
  \/ \E rc \in 0..2, d \in 0..MaxDuration : ScrapeFetch(rc, d)
  \/ RunTweetProcessor
  \/ \E kind \in FetchKinds, scraped \in ScrapeOutcomes : ProcessorFetch(kind, scraped)
  \/ ProcessorEnd
  \/ Sleep

SpecService == InitService /\ [][NextService]_vars

\* ------------------------------------------------- tweet_to_weibo.py: post_to_weibo

postRest == <<force, CACHE_EXPIRY, cache_file, clock, valid, checked, fetchVars,
              codecVars, stopVars, twoVars, transVars, scraperVars, snapVars, liveVars>>

InitPost ==
  /\ ModeIdle
  /\ TEST_MODE \in BOOLEAN
  /\ ProcRest
  /\ CacheIdle

\* media_urls[:9]
MediaLimit == 9

TakeAll(n) == n
\* len(media_urls[:9]): how many urls the for loop goes through
ImagesTaken(n) == IF n < MediaLimit THEN n ELSE MediaLimit

\* what can happen to one image inside the try of the loop:
\*   "uploaded"        status 200 and the upload response holds 'pic_id'
\*   "http_error"      requests.get returned another status
\*   "download_raises" requests.get or the write of the file raised
\*   "no_pic_id"       the upload response holds no 'pic_id'
\*   "upload_raises"   client.upload.pic.upload raised
ImageOutcomes ==
  {"uploaded", "http_error", "download_raises", "no_pic_id", "upload_raises"}

\* what the post call does: the response holds 'id', holds none, or it raises
PostOutcomes == {"id", "no_id", "raises"}

\* post_to_weibo(text, media_urls) is called with n urls; the test mode logs
\* and returns True before anything else
PostCall(n) ==
  /\ UNCHANGED <<modeVars, procVars, postRest>>
  /\ wpc = "idle"
  /\ wAttempt = 0
  /\ media_urls' = n
  /\ IF TEST_MODE
     THEN /\ wpc' = "true"
          /\ wAttempt' = 0
     ELSE /\ wpc' = "media"
          /\ wAttempt' = 1
  /\ UNCHANGED <<mediaIx, pic_ids, imgOutcome, postCalls, posted>>

\* one round of `for i, url in enumerate(media_urls[:9])`: an upload appends
\* its pic_id, everything else is logged and the loop goes on
HandleImage(outcome) ==
  /\ UNCHANGED <<modeVars, procVars, postRest>>
  /\ wpc = "media"
  /\ mediaIx < ImagesTaken(media_urls)
  /\ mediaIx' = mediaIx + 1
  /\ imgOutcome' = outcome
  /\ pic_ids' = IF outcome = "uploaded" THEN Append(pic_ids, mediaIx + 1)
                ELSE pic_ids
  /\ UNCHANGED <<wpc, media_urls, postCalls, posted, wAttempt>>

\* after the loop: statuses.upload with the joined pic_ids, or statuses.update
\* when there is none; 'id' in the response gives True, no 'id' gives False,
\* an exception is raised again and the wrapper runs the body once more until
\* PostAttempts executions
IssuePost(out) ==
  /\ UNCHANGED <<modeVars, procVars, postRest>>
  /\ wpc = "media"
  /\ mediaIx = ImagesTaken(media_urls)
  /\ postCalls' = postCalls + 1
  /\ \/ /\ out = "id"
        /\ wpc' = "true"
        /\ posted' = [api |-> IF pic_ids # <<>> THEN "upload" ELSE "update",
                      pic_id |-> pic_ids]
        /\ UNCHANGED <<mediaIx, pic_ids, imgOutcome, wAttempt>>
     \/ /\ out = "no_id"
        /\ wpc' = "false"
        /\ posted' = [api |-> IF pic_ids # <<>> THEN "upload" ELSE "update",
                      pic_id |-> pic_ids]
        /\ UNCHANGED <<mediaIx, pic_ids, imgOutcome, wAttempt>>
     \/ /\ out = "raises"
        /\ wAttempt >= PostAttempts
        /\ wpc' = "raised"
        /\ posted' = [api |-> IF pic_ids # <<>> THEN "upload" ELSE "update",
                      pic_id |-> pic_ids]
        /\ UNCHANGED <<mediaIx, pic_ids, imgOutcome, wAttempt>>
     \/ /\ out = "raises"
        /\ wAttempt < PostAttempts
        /\ wAttempt' = wAttempt + 1
        /\ mediaIx' = 0
        /\ pic_ids' = <<>>
        /\ imgOutcome' = "none"
        /\ posted' = NoPost
        /\ UNCHANGED wpc
  /\ UNCHANGED media_urls

NextPost ==
  \/ \E n \in 0..MaxMedia : PostCall(n)
  \/ \E outcome \in ImageOutcomes : HandleImage(outcome)
  \/ \E out \in PostOutcomes : IssuePost(out)

SpecPost == InitPost /\ [][NextPost]_vars

\* ------------------------------------------------- tweet_to_weibo.py: a test run, then a run without the test mode

\* both runs work in the same directory: PROCESSED_TWEETS_FILE is
\* "processed_tweets.json" whatever TEST_MODE is
InitTestLive ==
  /\ InitProc
  /\ TEST_MODE
  /\ USE_BACKUP_TRANSLATOR

liveRest == <<force, CACHE_EXPIRY, cache_file, clock, valid, checked, fetchVars,
              codecVars, stopVars, twoVars, transVars, scraperVars, snapVars>>

\* the urls process_tweets collected for the tweet: none or one photo
MediaOfTweet == 0..1

\* __main__: `if TEST_MODE or args.once:` calls process_tweets once and the
\* program ends, so the test run is one cycle
RunCycle(tweets) ==
  /\ TEST_MODE => cycles = 0
  /\ StartCycle(tweets)

\* process_tweets of the test run calls post_to_weibo(post_text, media_urls)
CallPost(n) ==
  /\ ppc = "post"
  /\ TEST_MODE
  /\ PostCall(n)

\* post_to_weibo has returned True to process_tweets, which goes on to
\* save_processed_tweet
PostReturnedTrue ==
  /\ UNCHANGED <<modeVars, liveRest, testLedger>>
  /\ ppc = "post"
  /\ wpc = "true"
  /\ attempt' = (IF wAttempt = 0 THEN 1 ELSE wAttempt)
  /\ published' = [published EXCEPT ![Head(new_tweets).id] = Counted(@)]
  /\ ppc' = "record"
  /\ wpc' = "idle"
  /\ media_urls' = 0
  /\ wAttempt' = 0
  /\ UNCHANGED <<mediaIx, pic_ids, imgOutcome, postCalls, posted>>
  /\ UNCHANGED <<procCfg, ledger, ledger_ok, processed_tweets, cycles, fetchedIds,
                 new_tweets, lastTweet, translated_text, allOk, translator>>

\* the run without the test mode: post_to_weibo as in SpecProc
LivePost(out) ==
  /\ ~TEST_MODE
  /\ PostBody(out)

\* the test run has ended; tweet_to_weibo.py is started again without --test
\* and with TEST_MODE = False in config.ini. The file stays, the memory of the
\* process does not
LiveRestart ==
  /\ UNCHANGED <<modeVars, liveRest, postVars>>
  /\ ppc = "idle"
  /\ TEST_MODE
  /\ cycles = 1
  /\ TEST_MODE' = FALSE
  /\ testLedger' = ledger
  /\ processed_tweets' = <<>>
  /\ lastTweet' = NoTweet
  /\ fetchedIds' = {}
  /\ allOk' = TRUE
  /\ UNCHANGED <<USE_BACKUP_TRANSLATOR, ledger, ledger_ok, ppc, new_tweets,
                 translated_text, attempt, cycles, published, translator>>

NextTestLive ==
  \/ \E tweets \in NewestFirst : RunCycle(tweets)
  \/ SkipRetweet
  \/ \E d \in TranslateDraws : Translate(d.primary, d.coin, d.fb)
  \/ \E n \in MediaOfTweet : CallPost(n)
  \/ PostReturnedTrue
  \/ \E out \in {"true", "false", "raise"} : LivePost(out)
  \/ RecordProcessed
  \/ LiveRestart

SpecTestLive == InitTestLive /\ [][NextTestLive]_vars

\* ------------------------------------------------- interrupts and crashes

stopRest == <<force, CACHE_EXPIRY, cache_file, clock, valid, checked, fetchVars,
              codecVars, twoVars, transVars,
      scraperVars, snapVars, postVars, liveVars>>

\* how the process can end before process_tweets returns: KeyboardInterrupt
\* (SIGINT) or the death of the process
StopKinds == {"interrupt", "crash"}

\* the process ends at the point it has reached. KeyboardInterrupt is no
\* Exception: neither except of process_tweets holds it, so it leaves the for
\* loop at once (the loop mode logs "服务已手动停止" and ends, the single-run
\* mode ends with the traceback). The files keep what was written so far.
Stop(how) ==
  /\ UNCHANGED <<modeVars, stopRest>>
  /\ ppc # "stopped"
  /\ stops < MaxStops
  /\ stops' = stops + 1
  /\ halt' = how
  /\ ppc' = "stopped"
  /\ crashedIn' = IF ppc = "record" THEN crashedIn \cup {Head(new_tweets).id}
                  ELSE crashedIn
  /\ UNCHANGED <<procCfg, ledger, ledger_ok, processed_tweets, new_tweets,
                 translated_text, attempt, cycles, lastTweet, published,
                 fetchedIds, allOk, translator>>

\* the program is started again: the files are what the last run left, the
\* memory is new
Restart ==
  /\ UNCHANGED <<modeVars, stopRest>>
  /\ ppc = "stopped"
  /\ ppc' = "idle"
  /\ processed_tweets' = <<>>
  /\ new_tweets' = <<>>
  /\ translated_text' = "none"
  /\ attempt' = 0
  /\ translator' = "none"
  /\ lastTweet' = NoTweet
  /\ UNCHANGED <<procCfg, ledger, ledger_ok, cycles, published, fetchedIds,
                 allOk, halt, stops, crashedIn>>

NextStop ==
  \/ NextProc
  \/ \E how \in StopKinds : Stop(how)
  \/ Restart

SpecStop == InitProc /\ [][NextStop]_vars

\* the program that fetched the tweets writes the cache file
CodecSave ==
  /\ UNCHANGED <<modeVars, procVars, codecRest>>
  /\ cpc = "start"
  /\ cpc' = "saved"
  /\ cache_tweets' = SaveTweets(cache_writer, items)
  /\ UNCHANGED <<items, cache_writer, loaded>>

\* tweet_to_weibo.py reads it back
CodecLoad ==
  /\ UNCHANGED <<modeVars, procVars, codecRest>>
  /\ cpc = "saved"
  /\ cpc' = "loaded"
  /\ loaded' = LoadTweets(cache_tweets)
  /\ UNCHANGED <<items, cache_writer, cache_tweets>>

NextCodec ==
  \/ CodecSave
  \/ CodecLoad

SpecCodec == InitCodec /\ [][NextCodec]_vars

\* ------------------------------------------------- claims on process_tweets

\* C1: in a run of process_tweets cycles without a crash, post_to_weibo returns
\* True at most once for every tweet id.
C1_PublishedAtMostOnce ==
  \A i \in 1..MaxIds : published[i] <= 1

C3_RecordedIffPublishedOrRetweet ==
  lastTweet # NoTweet =>
    /\ lastTweet.added <=> (lastTweet.pub = "true" \/ lastTweet.rt)
    /\ (TranslationFailed(lastTweet.text) \/ lastTweet.pub \in {"false", "raise"}) => ~lastTweet.added

\* C32: in a cycle the new tweets are handled in ascending order of their
\* created_at, one after the other from the head of the sorted list; a tweet
\* that is no retweet is translated, then published, then recorded: the post
\* step is entered only from the translation, the record step only from a
\* post that returned True, and an id of such a tweet enters the ledger only
\* in the record step, after its publish.
C32_SortedAndStepOrder ==
  /\ [](\A a \in 1..(Len(new_tweets) - 1) :
          new_tweets[a].created_at <= new_tweets[a + 1].created_at)
  /\ [][(new_tweets' # new_tweets /\ ppc # "idle")
          => new_tweets' = Tail(new_tweets) /\ lastTweet'.id = Head(new_tweets).id]_vars
  /\ [][(ppc' = "post" /\ ppc # "post")
          => /\ ppc = "item"
             /\ ~Head(new_tweets).rt
             /\ translator' # "none"
             /\ translated_text' \notin {"none", ""}
             /\ published' = published]_vars
  /\ [][(ppc' = "record")
          => /\ ppc = "post"
             /\ published'[Head(new_tweets).id] >= 1
             /\ ledger' = ledger]_vars
  /\ [][(ledger' # ledger)
          => /\ ppc \in {"item", "record"}
             /\ ledger' = Append(ledger, Head(new_tweets).id)
             /\ ppc = "item" => Head(new_tweets).rt
             /\ ppc = "record" => /\ published[Head(new_tweets).id] >= 1
                                  /\ translated_text \notin {"none", ""}]_vars

C32_Witness ==
  /\ cycles = 1
  /\ ppc = "record"
  /\ Len(new_tweets) = 1
  /\ Head(new_tweets).id = 3
  /\ lastTweet.id = 1
  /\ lastTweet.pub = "true"
  /\ ledger = <<1>>
  /\ published[3] = 1
  /\ translated_text = "primary"

\* C12: a cycle that fetches the same tweets as the cycle before it, in which
\* every tweet that is not a retweet was published, finds no new tweet: it
\* returns before the for loop, publishes nothing and leaves the ledger as it is.
C12_SecondRunPublishesNothing ==
  [][(ppc = "idle" /\ cycles >= 1 /\ cycles' = cycles + 1
        /\ allOk /\ fetchedIds' = fetchedIds)
       => /\ new_tweets' = <<>>
          /\ ppc' = "idle"
          /\ ledger' = ledger
          /\ published' = published]_vars

C12_Witness ==
  /\ cycles = 2
  /\ ppc = "idle"
  /\ lastTweet = NoTweet
  /\ allOk
  /\ fetchedIds = {1, 3}
  /\ Range(ledger) = {1, 3}
  /\ published[1] = 1
  /\ published[3] = 1

\* C13: a new tweet that is a retweet has its id recorded without a call of
\* the translator or of post_to_weibo, and the loop moves on; with an empty
\* ledger and the fetch [1 'hello', 2 'RT @x hi'], translate and publish
\* succeeding, tweet 1 is published and the ledger ends as {1, 2}.
C13_RetweetRecordedUntranslated ==
  /\ [][(ppc = "item" /\ Head(new_tweets).rt)
          => /\ Head(new_tweets).id \in Range(ledger')
             /\ translated_text' = "none"
             /\ attempt' = 0
             /\ published' = published
             /\ ppc' \in {"item", "idle"}
             /\ new_tweets' = Tail(new_tweets)]_vars
  /\ []((/\ cycles = 1
         /\ ppc = "idle"
         /\ processed_tweets = <<>>
         /\ fetchedIds = {1, 2}
         /\ allOk)
        => /\ Range(ledger) = {1, 2}
           /\ published[1] >= 1
           /\ published[2] = 0)

C13_Witness ==
  /\ cycles = 1
  /\ ppc = "idle"
  /\ fetchedIds = {1, 2}
  /\ allOk
  /\ ledger = <<1, 2>>
  /\ published[1] = 1
  /\ published[2] = 0
  /\ lastTweet.id = 2
  /\ lastTweet.rt
  /\ lastTweet.text = "none"
  /\ lastTweet.attempts = 0

\* C14: when the OpenAI call of translate_text_with_openai fails and the free
\* API it then calls succeeds, translate returns normally to process_tweets
\* (the for loop goes on to post_to_weibo for the same tweet) and the text it
\* hands to post_to_weibo is the free API's translation.
C14_FallbackOutputPublished ==
  /\ [][(ppc = "item" /\ translator' = "fb_ok")
          => /\ ppc' = "post"
             /\ new_tweets' = new_tweets
             /\ translated_text' = "fallback"]_vars
  /\ [](translator = "fb_ok" => translated_text = "fallback")

C14_Witness ==
  /\ ~TEST_MODE
  /\ USE_BACKUP_TRANSLATOR
  /\ translator = "fb_ok"
  /\ ppc = "record"
  /\ attempt = 1
  /\ translated_text = "fallback"
  /\ published[Head(new_tweets).id] = 1

\* C15: with the fallback translator disabled, a tweet whose OpenAI call
\* failed is not handed to post_to_weibo and is not recorded in that cycle.
C15_NoFallbackSkipsTweet ==
  (~USE_BACKUP_TRANSLATOR /\ translator = "p_fail")
    => ppc \notin {"post", "record"}

\* C16: a tweet whose translation failed is never handed to post_to_weibo with
\* a failure placeholder, a tweet whose translation or publish failed is left
\* out of the ledger, and the for loop goes on with the next new tweet.
C16_FailureSkipsOnlyTheItem ==
  /\ [](ppc \in {"post", "record"} => ~TranslationFailed(translated_text))
  /\ [][(ppc \in {"item", "post"} /\ lastTweet'.pub # "true" /\ ~lastTweet'.rt
           /\ new_tweets' = Tail(new_tweets))
          => /\ ledger' = ledger
             /\ ppc' = IF new_tweets' = <<>> THEN "idle" ELSE "item"]_vars

\* C17: post_to_weibo's body is executed at most 3 times for a call; when the
\* third execution raises too, the exception ends the handling of the tweet
\* without a change of the ledger, and a cycle takes every fetched tweet whose
\* id is not in the ledger as a new tweet.
C17_RetryExhaustedLeavesUnprocessed ==
  /\ [](ppc = "post" => attempt < 3)
  /\ [][(ppc = "post" /\ ppc' \in {"item", "idle"} /\ lastTweet'.pub = "raise")
          => /\ attempt = 2
             /\ lastTweet'.attempts = 3
             /\ ledger' = ledger
             /\ published' = published]_vars
  /\ [][(ppc = "idle" /\ cycles' = cycles + 1)
          => \A i \in fetchedIds' :
               i \notin Range(ledger)
                 => \E k \in 1..Len(new_tweets') : new_tweets'[k].id = i]_vars

C17_Witness ==
  /\ cycles = 1
  /\ ppc = "idle"
  /\ lastTweet.pub = "raise"
  /\ lastTweet.attempts = 3
  /\ ~lastTweet.added
  /\ lastTweet.id \notin Range(ledger)
  /\ ~allOk

\* ------------------------------------------------- claims on the cache

\* C4: is_valid_cache returns True exactly when --force is not given, the
\* cache file exists and parses, and now - fetched_at < expiry window; for a
\* file that does not parse it returns False.
C4_CacheValidity ==
  checked =>
    /\ valid <=> (/\ ~force
                  /\ cache_file.state = "ok"
                  /\ clock - cache_file.timestamp < CACHE_EXPIRY)
    /\ cache_file.state = "malformed" => ~valid

C4_Witness ==
  /\ checked
  /\ valid
  /\ CACHE_EXPIRY = 15
  /\ clock - cache_file.timestamp = 14

\* ------------------------------------------------- claims on the service loop

\* C23: after a cycle in which run_scraper returned False the looping service
\* does not end: it sleeps for the interval and then starts the next cycle
\* (as long as the clock of the model has room for the sleep); the service
\* ends only when it was started with --once, and then right after the cycle.
C23_FailedCycleWaitsForNext ==
  /\ [](pc = "done" => once)
  /\ [][(pc = "ret" /\ ~result) => pc' = IF once THEN "done" ELSE "sleep"]_vars
  /\ [][(pc = "sleep" /\ pc' # "sleep") => pc' = "main" /\ now' = now + interval]_vars
  /\ (pc = "ret" /\ ~result /\ ~once /\ now + interval <= MaxTime)
       ~> (pc = "enter" /\ depth = 0 /\ ~result /\ now >= interval)
  /\ (pc = "ret" /\ ~result /\ once) ~> (pc = "done")

C23_Witness ==
  /\ ~once
  /\ pc = "enter"
  /\ depth = 0
  /\ now >= interval
  /\ ~result
  /\ ENABLE_AUTO_SWITCH
  /\ ~USE_API_MODE
  /\ LAST_API_FAILURE # None
  /\ API_FAILURE_COUNT = MAX_API_FAILURES

\* ------------------------------------------------- claims on the translator

\* C27: when the OpenAI call fails with a rate limit or a timeout, the call
\* has been executed 3 times by the time translate_text_with_openai returns
\* the fallback's text or the failure.
C27_PrimaryRetriedThreeTimes ==
  (/\ tpc = "returned"
   /\ tInput.primary \in RetriedErrors
   /\ primaryCalls >= 1)
    => primaryCalls = TranslateAttempts

\* ------------------------------------------------- claims on x_scraper.py

\* C28: scrape_tweets_from_nitter visits the mirrors one after another; a
\* mirror that raises or gives no tweet sends it to the next one and never
\* ends the fetch; it stops at the first mirror that gives a tweet, and the
\* tweets it returns are those of that one mirror.
C28_FirstYieldingMirrorOnly ==
  /\ [](\A a, b \in 1..Len(scraperTweets) : scraperTweets[a].src = scraperTweets[b].src)
  /\ [](/\ Len(visited) = mirrorIx
        /\ Len(order) = mirrorIx
        /\ \A a, b \in 1..Len(order) : order[a] = order[b] => a = b
        /\ \A k \in 1..(Len(visited) - 1) : visited[k] # "items")
  /\ []((visited # <<>> /\ visited[Len(visited)] = "items")
          => /\ spc # "nitter"
             /\ scraperTweets # <<>>
             /\ \A a \in 1..Len(scraperTweets) : scraperTweets[a].src = order[Len(visited)])
  /\ [][(spc = "nitter" /\ visited' # visited /\ visited'[Len(visited')] # "items")
          => /\ scraperTweets' = <<>>
             /\ mirrorIx' = mirrorIx + 1
             /\ spc' = IF mirrorIx' < MaxMirrors THEN "nitter" ELSE "direct"
             /\ exit_code' = -1]_vars

C28_Witness ==
  /\ spc = "save"
  /\ visited = <<"error", "no_items", "items">>
  /\ Len(scraperTweets) = 2
  /\ scraperTweets[1].src = order[3]
  /\ scraperTweets[2].src = order[3]
  /\ order[1] = 2

\* C29: when every mirror failed, main runs the direct scrape; when that gives
\* nothing either, the list of tweets is empty, the cache file is the one the
\* run found, the process ends with return code 0, and the caller counts the
\* run as a failed fetch.
C29_EmptyScrapeIsFailure ==
  /\ [](/\ Len(visited) = MaxMirrors
        /\ \A k \in 1..Len(visited) : visited[k] # "items"
        /\ spc # "nitter"
        => spc = "direct" \/ direct # "none")
  /\ [](/\ spc = "judged"
        /\ Len(visited) = MaxMirrors
        /\ \A k \in 1..Len(visited) : visited[k] # "items"
        /\ direct \in {"error", "nothing"}
        => /\ scraperTweets = <<>>
           /\ cache_file = cacheBefore
           /\ exit_code = 0
           /\ verdict = "failure")

\* ------------------------------------------------- claims on two invocations

\* C26: two invocations of process_tweets on one ledger file are unsafe. Both
\* can publish the same tweet, which happens only for a tweet that neither
\* found in the ledger it loaded on entry; and an id that one invocation
\* recorded can leave the ledger, which happens only when the other one
\* writes back a list it read before that id was in the file. The witness
\* holds both: a tweet published by both and a recorded id lost.
C26_TwoInvocationsUnsafe ==
  /\ [](\A i \in pubBy[1] \cap pubBy[2] :
          i \notin Range(qloaded[1]) /\ i \notin Range(qloaded[2]))
  /\ [][\A i \in Range(ledger) \ Range(ledger') :
          \E p \in Invocations :
            /\ qpc[p] = "write"
            /\ qpc'[p] # "write"
            /\ i \notin Range(qread[p])]_vars
  /\ [][recorded \subseteq recorded']_vars

C26_Witness ==
  /\ \E i \in 1..MaxIds : i \in pubBy[1] /\ i \in pubBy[2] /\ published[i] = 2
  /\ \E j \in recorded : j \notin Range(ledger)

\* ------------------------------------------------- claims on interrupts and crashes

\* C24: an interrupt ends the process only between cycles, never part-way
\* through process_tweets, so when the process has ended by an interrupt every
\* tweet that was published is in the ledger.
C24_InterruptWaitsForCycleEnd ==
  /\ [][(ppc # "stopped" /\ ppc' = "stopped" /\ halt' = "interrupt")
         => ppc = "idle"]_vars
  /\ []((ppc = "stopped" /\ halt = "interrupt")
         => \A i \in 1..MaxIds : published[i] >= 1 => i \in Range(ledger))

\* C25: when the process ends between the True of post_to_weibo for a tweet
\* and its save_processed_tweet the id is not in the ledger, and a tweet is
\* published twice only when the process ended in that window for it.
C25_DuplicateOnlyThroughCrashWindow ==
  /\ [][(ppc = "record" /\ ppc' = "stopped")
         => Head(new_tweets).id \notin Range(ledger')]_vars
  /\ [](\A i \in 1..MaxIds : published[i] >= 2 => i \in crashedIn)

\* ------------------------------------------------- claims on the fetch

\* C18: a call of get_tweets_from_x that starts with a valid cache (no --force,
\* the file parses, its age is below the expiry) returns the tweets of the
\* cache, and runs neither the API strategy nor the scrape strategy.
C18_ValidCacheShortCircuits ==
  [][(/\ fpc = "idle"
      /\ fpc' = "fetched"
      /\ ~force
      /\ cache_file.state = "ok"
      /\ clock - cache_file.timestamp < CACHE_EXPIRY)
       => /\ returned' = "snapshot"
          /\ fetchSrc' = "cache"
          /\ apiCalls' = 0
          /\ scrapeCalls' = 0]_vars

\* C19: a call of get_tweets_from_x in which the API raises a rate-limit error
\* runs the API strategy once, then the scrape strategy, and logs the text by
\* which run_scraper classifies the child (exit status 0) as an API failure.
C19_RateLimitHandsOverOnce ==
  [][(fpc = "idle" /\ fpc' = "fetched" /\ fetchKind' = "rate_limit")
       => /\ apiCalls' = 1
          /\ scrapeCalls' = 1
          /\ fetchSrc' = "scrape"
          /\ rateLimitLogged'
          /\ ApiClassifiedFailure(ApiChildReturnCode(fetchKind'), rateLimitLogged')]_vars

C19_Witness ==
  /\ fpc = "fetched"
  /\ fetchKind = "rate_limit"
  /\ apiCalls = 1
  /\ scrapeCalls = 1
  /\ rateLimitLogged
  /\ returned = "fresh"
  /\ cache_file.format = "scraper"

C30_OnlyValidSnapshotReturned ==
  (/\ fpc = "fetched"
   /\ \/ returned = "snapshot"
      \/ fetchSrc = "scrape" /\ returned \in {"fresh", "stale"})
    => /\ cache_file.state = "ok"
       /\ clock - cache_file.timestamp < CACHE_EXPIRY

\* ------------------------------------------------- claims on the cache over fetches

\* C34: when main is about to call run_scraper, API mode comes with
\* API_FAILURE_COUNT < MAX_API_FAILURES, and the no-API mode of a run that
\* began in API mode comes with LAST_API_FAILURE set; the mode leaves API only
\* in a step that sets LAST_API_FAILURE and finds the count at the threshold.
C34_CycleStartInvariant ==
  /\ [](pc = "main"
          => /\ USE_API_MODE => API_FAILURE_COUNT < MAX_API_FAILURES
             /\ (~USE_API_MODE /\ ~no_api) => LAST_API_FAILURE # None)
  /\ [][(USE_API_MODE /\ ~USE_API_MODE')
          => /\ LAST_API_FAILURE' = Some(current_time)
             /\ API_FAILURE_COUNT' >= MAX_API_FAILURES]_vars

C34_Witness ==
  /\ pc = "main"
  /\ ~no_api
  /\ ~USE_API_MODE
  /\ MAX_API_FAILURES = 2
  /\ API_FAILURE_COUNT = 2
  /\ LAST_API_FAILURE = Some(2)
  /\ now = 4

\* C35: a scrape fetch happens only in the no-API mode, and whether it
\* succeeds or fails it leaves USE_API_MODE, API_FAILURE_COUNT and
\* LAST_API_FAILURE as they were.
C35_ScrapeOutcomeKeepsController ==
  [][(scrapeFetches' = scrapeFetches + 1)
       => /\ ~USE_API_MODE
          /\ UNCHANGED <<USE_API_MODE, API_FAILURE_COUNT, LAST_API_FAILURE>>]_vars

C35_Witness ==
  /\ pc = "ret"
  /\ scrapeFetches = 1
  /\ ~result
  /\ ~USE_API_MODE
  /\ ~no_api
  /\ apiFetches = 1
  /\ API_FAILURE_COUNT = MAX_API_FAILURES
  /\ LAST_API_FAILURE = Some(0)
  /\ now = 2

\* C36: while main is in a cycle of the no-API mode, the subprocess of
\* run_tweet_processor makes no call of the X API, and the tweets it goes on
\* with do not come from the API.
C36_NoApiCallInScrapeCycle ==
  (pc = "processor" /\ ~USE_API_MODE) => (apiCalls = 0 /\ fetchSrc # "api")

\* C37: inside one call of run_scraper by main there is at most one API
\* fetch and at most one scrape fetch, and run_scraper calls itself at most
\* once.
C37_OneFetchOfEachKindPerCall ==
  apiFetches <= 1 /\ scrapeFetches <= 1 /\ depth <= 1

\* C39: in a run started with --no-api and ENABLE_AUTO_SWITCH on,
\* LAST_API_FAILURE is None in every state, the recovery never happens, no API
\* fetch is made and the mode is no-API in every state.
C39_ForcedScrapeNeverRecovers ==
  (no_api /\ ENABLE_AUTO_SWITCH)
    => /\ LAST_API_FAILURE = None
       /\ ~USE_API_MODE
       /\ ~recovered
       /\ apiFetches = 0
       /\ pc # "api"

C39_Witness ==
  /\ no_api
  /\ ENABLE_AUTO_SWITCH
  /\ API_RECOVERY_MINUTES = 0
  /\ pc = "scrape"
  /\ now = 5
  /\ current_time = 5
  /\ ~result

\* C38: in the test mode post_to_weibo returns True without a post call;
\* process_tweets then writes the id to processed_tweets.json, so every tweet
\* a test run has handled is in the file; a later run without the test mode
\* loads the same file and takes none of these tweets as new.
C38_TestRunFillsSharedLedger ==
  /\ [](TEST_MODE => (postCalls = 0 /\ wpc \in {"idle", "true"}))
  /\ [][(TEST_MODE /\ wpc # "idle" /\ wpc' = "idle")
          => /\ wpc = "true"
             /\ postCalls = 0
             /\ posted = NoPost
             /\ ppc' = "record"]_vars
  /\ []((TEST_MODE /\ lastTweet # NoTweet)
          => (lastTweet.added /\ lastTweet.id \in Range(ledger)))
  /\ [](~TEST_MODE
          => /\ \A k \in 1..Len(testLedger) : testLedger[k] = ledger[k]
             /\ \A k \in 1..Len(new_tweets) :
                  new_tweets[k].id \notin Range(testLedger))
  /\ [][(~TEST_MODE /\ published' # published)
          => Head(new_tweets).id \notin Range(testLedger)]_vars

C38_Witness ==
  /\ ~TEST_MODE
  /\ testLedger = <<1, 2>>
  /\ published[1] = 1
  /\ cycles = 2
  /\ fetchedIds = {1, 3}
  /\ ppc = "record"
  /\ Head(new_tweets).id = 3
  /\ Len(new_tweets) = 1
  /\ published[3] = 1

\* C33: post_to_weibo handles at most 9 images; an image whose download or
\* upload fails is skipped and the loop goes on; every execution of the body
\* ends with exactly one post call, which carries the pic_ids of the images
\* that were uploaded (statuses.upload) or none (statuses.update).
C33_ImageFailureDoesNotAbortPost ==
  /\ [](mediaIx <= 9 /\ Len(pic_ids) <= mediaIx)
  /\ [][(mediaIx' = mediaIx + 1)
          => /\ wpc' = "media"
             /\ postCalls' = postCalls
             /\ wAttempt' = wAttempt
             /\ pic_ids' = IF imgOutcome' = "uploaded"
                           THEN Append(pic_ids, mediaIx') ELSE pic_ids]_vars
  /\ [][(postCalls' # postCalls)
          => /\ postCalls' = postCalls + 1
             /\ postCalls' = wAttempt
             /\ mediaIx = (IF media_urls < 9 THEN media_urls ELSE 9)]_vars
  /\ []((wpc \in {"true", "false", "raised"} /\ ~TEST_MODE)
          => /\ postCalls = wAttempt
             /\ posted.pic_id = pic_ids
             /\ posted.api = (IF pic_ids = <<>> THEN "update" ELSE "upload"))

C33_Witness ==
  /\ wpc = "true"
  /\ media_urls = 10
  /\ mediaIx = 9
  /\ imgOutcome = "upload_raises"
  /\ pic_ids = <<2, 5>>
  /\ posted = [api |-> "upload", pic_id |-> <<2, 5>>]
  /\ postCalls = 1

\* C31: a fresh fetch that returned at least one tweet replaces the cache
\* file by the new snapshot: its tweets are those of the fetch, one entry for
\* each, in the same order, with nothing of the old file kept, and its
\* timestamp is the time of the fetch. A fetch that failed or returned no
\* tweet leaves the file as it was.
C31_CacheReplacedWholesale ==
  (npc = "idle" /\ fetches >= 1)
    => IF fresh.ok /\ fresh.tweets # <<>>
       THEN /\ Len(snapshot.tweets) = Len(fresh.tweets)
            /\ \A k \in 1..Len(fresh.tweets) :
                 /\ snapshot.tweets[k].id = fresh.tweets[k].id
                 /\ snapshot.tweets[k].value = fresh.tweets[k].text
            /\ snapshot.timestamp = fetches
            /\ snapshot.by = fresh.by
       ELSE snapshot = snapshotBefore

C31_Witness ==
  /\ npc = "idle"
  /\ fetches = 2
  /\ fresh.ok
  /\ Len(snapshotBefore.tweets) = 2
  /\ snapshotBefore.tweets[1].id = 1
  /\ snapshotBefore.by = "scraper"
  /\ Len(snapshot.tweets) = 1
  /\ snapshot.tweets[1].id = 3
  /\ snapshot.by = "api"
  /\ snapshot.timestamp = 2

\* ------------------------------------------------- claims on the cache content

\* C21: the tweets a strategy fetched, written to the cache file by its
\* program and read back by load_tweets_from_cache, come back as the same
\* sequence with the same ids, texts and times.
C21_CacheRoundTrip ==
  cpc = "loaded"
    => /\ Len(loaded) = Len(items)
       /\ \A k \in 1..Len(items) :
            /\ loaded[k].id = items[k].id
            /\ loaded[k].text = items[k].text
            /\ loaded[k].time = items[k].time

\* ------------------------------------------------- claims on the ledger file

\* C20: no call of load_processed_tweets or save_processed_tweet removes an id
\* from the ledger file, also after the file was found unparsable.
C20_LedgerGrowsMonotonically ==
  [][Range(ledger) \subseteq Range(ledger')]_vars

\* ------------------------------------------------- claims on the mode controller

\* C5: starting in API mode with threshold N >= 1, the controller stays in API
\* mode while fewer than N API failures in a row have been observed, and it
\* leaves API mode exactly in the step in which the N-th failure in a row is
\* observed.
C5_SwitchAtThreshold ==
  /\ [](USE_API_MODE => streak < MAX_API_FAILURES)
  /\ [][(USE_API_MODE /\ ~USE_API_MODE')
          <=> (USE_API_MODE /\ streak' = streak + 1 /\ streak' = MAX_API_FAILURES)]_vars

C5_Witness ==
  /\ ~no_api
  /\ MAX_API_FAILURES = 3
  /\ streak = 3
  /\ ~USE_API_MODE
  /\ lastClass = "failure"

\* C6: on entry to run_scraper in no-API mode with a recorded API failure and
\* auto switching enabled: when more than the recovery window has passed since
\* the failure, the mode is API again and the failure count is 0 before any
\* fetch of the call; otherwise the mode stays no-API.
C6_RecoveryAfterWindow ==
  [][(pc = "enter" /\ ~USE_API_MODE /\ LAST_API_FAILURE # None /\ ENABLE_AUTO_SWITCH)
       => IF now - LAST_API_FAILURE[1] > API_RECOVERY_MINUTES
          THEN /\ USE_API_MODE'
               /\ API_FAILURE_COUNT' = 0
               /\ pc' = "api"
               /\ apiFetches' = apiFetches
               /\ scrapeFetches' = scrapeFetches
          ELSE /\ ~USE_API_MODE'
               /\ pc' = "scrape"]_vars

C6_Witness ==
  /\ pc = "api"
  /\ depth = 0
  /\ recovered
  /\ apiFetches = 0
  /\ USE_API_MODE
  /\ API_FAILURE_COUNT = 0
  /\ API_RECOVERY_MINUTES >= 1

\* C7: when the call of run_scraper that flipped to no-API mode on a rate-limit
\* failure (failure count N-1 before it) returns, it has run a scrape fetch.
C7_FlipThenScrapeInSameCall ==
  (pc = "ret" /\ flipRL) => scrapeFetches >= 1

\* C8: an API subprocess that run_scraper classifies as a success leaves the
\* failure count at 0, and the count is always the number of failures in a row.
C8_SuccessResetsCount ==
  /\ [][(pc = "api" /\ lastClass' = "success") => API_FAILURE_COUNT' = 0]_vars
  /\ [](API_FAILURE_COUNT = streak)

C8_Witness ==
  /\ pc = "ret"
  /\ lastClass = "success"
  /\ countBefore >= 1
  /\ API_FAILURE_COUNT = 0
  /\ USE_API_MODE

\* C9: every API fetch failure (rate limit, authentication error, network
\* error) adds one to the failure count and records the time of the failure.
C9_EveryFailureCounted ==
  [][(pc = "api" /\ apiFetches' = apiFetches + 1
        /\ lastKind' \in {"rate_limit", "auth_error", "network_error"})
       => /\ API_FAILURE_COUNT' = API_FAILURE_COUNT + 1
          /\ LAST_API_FAILURE' = Some(current_time)]_vars

\* C10: before the first cycle the mode is API unless --no-api was given, in
\* which case it is no-API; the failure count is 0 and no failure is recorded.
C10_InitialState ==
  (pc = "main" /\ now = 0)
    => /\ USE_API_MODE = ~no_api
       /\ API_FAILURE_COUNT = 0
       /\ LAST_API_FAILURE = None

C10_Witness ==
  /\ pc = "main"
  /\ now = 0
  /\ no_api
  /\ ~USE_API_MODE

\* C11: with --no-api and auto switching disabled the mode is no-API in every
\* state of the run: no fetch outcome and no elapsed time brings run_scraper to
\* the API branch.
C11_ForcedScrapeStays ==
  (no_api /\ ~ENABLE_AUTO_SWITCH)
    => /\ ~USE_API_MODE
       /\ pc # "api"
       /\ apiFetches = 0

C11_Witness ==
  /\ no_api
  /\ ~ENABLE_AUTO_SWITCH
  /\ pc = "ret"
  /\ scrapeFetches = 1
  /\ ~result
  /\ now >= 3

====
